---- MODULE Spec2Model ----
(***************************************************************************)
(* Model of the pseudo-terminal session manager (PtyManager) of EnsoAI:    *)
(* the session registry, the id counter, the spawned processes and the     *)
(* handlers create / write / resize / destroy / destroyAll /               *)
(* destroyByWorkdir together with the asynchronous data and exit           *)
(* notifications of the spawned processes.                                 *)
(*                                                                         *)
(* Strings the code inspects character by character (working directories)  *)
(* are sequences of one-character strings; shell paths are records         *)
(* [dir, base] ("/bin" + "/" + "zsh"), dir = "" for a bare command name.   *)
(***************************************************************************)
EXTENDS Integers, Sequences, FiniteSets, TLC

\* ------------------------------------------------------------------ bounds

\* create calls per behaviour (the counter is unbounded in the code)
MaxCreate == 2
\* writes and resizes that reach a process plus output chunks the processes
\* deliver, per behaviour
MaxIO == 1

\* ------------------------------------------------------------ shell paths

Sh(d, b) == [dir |-> d, base |-> b]

NoShell == Sh("", "")

\* shell.includes('/')
IncludesSlash(shell) == shell.dir # ""

\* shell.endsWith('/sh')
EndsWithSlashSh(shell) == shell.dir # "" /\ shell.base = "sh"

\* the candidate list of findFallbackShell, in order
candidates ==
  << Sh("/bin", "zsh"), Sh("/usr/bin", "zsh"), Sh("/usr/local/bin", "zsh"),
     Sh("/bin", "bash"), Sh("/usr/bin", "bash"), Sh("/usr/local/bin", "bash"),
     Sh("/bin", "sh"), Sh("/usr/bin", "sh") >>

\* fs.existsSync on the disk of the environment
existsSync(dsk, shell) == shell \in dsk

RECURSIVE FirstExisting(_, _)
FirstExisting(dsk, i) ==
  IF i > Len(candidates) THEN Sh("/bin", "sh")
  ELSE IF existsSync(dsk, candidates[i]) THEN candidates[i]
  ELSE FirstExisting(dsk, i + 1)

findFallbackShell(dsk) == FirstExisting(dsk, 1)

\* arguments passed on whatever the shell
adjustArgsForShellKeeps(shell, args) == args

\* args.filter(a => a !== '-l') for a shell ending in "/sh"
adjustArgsForShell(shell, args) ==
  IF EndsWithSlashSh(shell) THEN SelectSeq(args, LAMBDA a : a # "-l") ELSE args

\* ---------------------------------------------------------------- strings

\* str.replace(/\\/g, '/')
ReplaceBackslash(s) == [i \in 1..Len(s) |-> IF s[i] = "\\" THEN "/" ELSE s[i]]

LowerChar(c) ==
  CASE c = "A" -> "a"
    [] c = "B" -> "b"
    [] c = "S" -> "s"
    [] c = "H" -> "h"
    [] OTHER -> c

\* str.toLowerCase()
toLowerCase(s) == [i \in 1..Len(s) |-> LowerChar(s[i])]

\* str.startsWith(prefix)
startsWith(s, prefix) ==
  /\ Len(prefix) <= Len(s)
  /\ SubSeq(s, 1, Len(prefix)) = prefix

\* workdir.replace(/\\/g, '/').toLowerCase()
NormalizeDir(s) == toLowerCase(ReplaceBackslash(s))

\* a prefix test that forgets the separator after the directory
WorkdirMatchesPrefix(normalizedCwd, normalizedWorkdir) ==
  \/ normalizedCwd = normalizedWorkdir
  \/ startsWith(normalizedCwd, normalizedWorkdir)

\* the test of destroyByWorkdir on the two normalized strings
WorkdirMatches(normalizedCwd, normalizedWorkdir) ==
  \/ normalizedCwd = normalizedWorkdir
  \/ startsWith(normalizedCwd, normalizedWorkdir \o <<"/">>)

\* ------------------------------------------------- the Map of the registry

\* A deleted entry keeps its place in the entry list while an iteration is
\* running (ECMAScript Map): a live iterator steps over it.
Tombstone == [key |-> <<"deleted", 0>>, pty |-> 0, cwd |-> <<>>]

MapHas(m, k) == \E i \in 1..Len(m) : m[i] # Tombstone /\ m[i].key = k

MapGet(m, k) == m[CHOOSE i \in 1..Len(m) : m[i] # Tombstone /\ m[i].key = k]

MapSet(m, k, v) ==
  IF MapHas(m, k)
    THEN [i \in 1..Len(m) |-> IF m[i] # Tombstone /\ m[i].key = k THEN v ELSE m[i]]
    ELSE Append(m, v)

\* a delete that closes the gap at once, as Array.splice does
MapDeleteSplice(m, k) == SelectSeq(m, LAMBDA e : e = Tombstone \/ e.key # k)

MapDelete(m, k) ==
  [i \in 1..Len(m) |-> IF m[i] # Tombstone /\ m[i].key = k THEN Tombstone ELSE m[i]]

\* between two handlers no iterator is alive: the deleted entries are gone
MapCompact(m) == SelectSeq(m, LAMBDA e : e # Tombstone)

MapKeys(m) == {m[i].key : i \in {j \in 1..Len(m) : m[j] # Tombstone}}


\* ------------------------------------------------------------ environment

\* The process-wide facts the handlers read: process.platform, the shells on
\* disk and $SHELL.  They do not change while the manager lives.
Envs ==
  { [isWindows |-> TRUE,  disk |-> {}, SHELL |-> NoShell],
    [isWindows |-> FALSE, disk |-> {Sh("/bin", "zsh"), Sh("/bin", "bash"), Sh("/bin", "sh")},
                          SHELL |-> Sh("/bin", "zsh")],
    [isWindows |-> FALSE, disk |-> {Sh("/usr/bin", "sh")}, SHELL |-> Sh("/opt", "fish")],
    [isWindows |-> FALSE, disk |-> {}, SHELL |-> NoShell] }

\* process.env.HOME || process.env.USERPROFILE || homedir()
Home == <<"/", "h">>

\* working directories sessions are created in (the empty string stands for
\* "not given"): D in another case and separator, with a trailing separator,
\* a descendant, a sibling sharing the prefix
CwdOptions ==
  { <<"/", "a", "/">>,
    <<"\\", "a", "\\", "S">>,
    <<"/", "a", "2">>,
    <<>> }

\* directories destroyByWorkdir is called with
WorkdirOptions ==
  { <<"/", "a">>,
    <<"\\", "A">>,
    <<"/", "a", "/">> }

NoConfig == [shellType |-> "none"]

\* what callers pass as options.shell / args / shellConfig: nothing, an
\* explicit path, an explicit command name beside a configuration, a
\* configuration alone
ShellRequests ==
  { [shell |-> NoShell, args |-> <<>>, shellConfig |-> NoConfig],
    [shell |-> Sh("/opt", "fish"), args |-> <<"-i", "-l">>, shellConfig |-> NoConfig],
    [shell |-> Sh("", "bash"), args |-> <<>>, shellConfig |-> [shellType |-> "zsh"]],
    [shell |-> NoShell, args |-> <<>>, shellConfig |-> [shellType |-> "zsh"]] }

WriteData == {"x"}

ResizeDims == {<<100, 30>>}

\* ---------------------------------------------------------------- state

VARIABLES
  env,        \* the environment of the process, fixed at start
  counter,    \* PtyManager.counter
  sessions,   \* PtyManager.sessions: the entries in insertion order
  procs,      \* the spawned pseudo-terminal processes, by handle
  returned,   \* the ids create has returned to its callers, in order
  last,       \* what the last handler was called with and what it did
  calls,      \* the execInPty calls: the variables each call closes over
  xprocs,     \* the processes execInPty has spawned, by handle
  hist,       \* the events each execInPty call has seen, in order
  penv,       \* process.env as the environment builders read it
  built,      \* what the last environment builder was given and returned
  os,         \* the process killProcessTree is aimed at, as the system sees it
  kcall,      \* what killProcessTree was last given and what it did
  settings,   \* the persisted settings file as readSettings returns it
  shcall,     \* the shell descriptors resolved for commands so far
  submitted,  \* the writes and resizes callers have submitted to registered sessions
  install,    \* HapiServerManager: the installation caches, the clock and the checks in flight
  hapi,       \* HapiServerManager: the server process, its status and the calls in flight
  tunnel,     \* CloudflaredManager: the tunnel, its status and the tunnels started so far
  plugin,     \* PluginsManager: the variables its execInPty calls close over
  watch       \* ipc/files: the watcher table and the watchers started so far

vars == <<env, counter, sessions, procs, returned, last,
          calls, xprocs, hist, penv, built, os, kcall, settings, shcall, submitted,
          install, hapi, tunnel, plugin, watch>>

\* the managers besides the terminal services, and their values while none
\* of them runs
Managers == <<install, hapi, tunnel, plugin, watch>>

ManagersIdle ==
  /\ install = <<>>
  /\ hapi = <<>>
  /\ tunnel = <<>>
  /\ plugin = <<>>
  /\ watch = <<>>

\* the variables the PtyManager does not touch, and their values while only
\* the PtyManager runs
NotPty == <<calls, xprocs, hist, penv, built, os, kcall, settings, shcall, submitted, Managers>>

NotPtyIdle ==
  /\ calls = <<>>
  /\ xprocs = <<>>
  /\ hist = <<>>
  /\ penv = <<>>
  /\ built = <<>>
  /\ os = <<>>
  /\ kcall = <<>>
  /\ settings = <<>>
  /\ shcall = <<>>
  /\ submitted = <<>>
  /\ ManagersIdle

\* `pty-${n}`
MkId(n) == <<"pty", n>>

AllIds == {MkId(n) : n \in 1..MaxCreate}

NoId == <<"pty", 0>>

NoArg == <<>>

Last(op, id, arg, raised, hits) ==
  [op |-> op, id |-> id, arg |-> arg, raised |-> raised, hits |-> hits]

\* the state a handler works on
St == [m |-> sessions, p |-> procs, raised |-> FALSE]

TotalInput == LET RECURSIVE Sum(_)
                  Sum(S) == IF S = {} THEN 0
                            ELSE LET n == CHOOSE x \in S : TRUE
                                 IN Len(procs[n].input) + Sum(S \ {n})
              IN Sum(DOMAIN procs)

TotalOutput == LET RECURSIVE Sum(_)
                   Sum(S) == IF S = {} THEN 0
                             ELSE LET n == CHOOSE x \in S : TRUE
                                  IN procs[n].output + Sum(S \ {n})
               IN Sum(DOMAIN procs)

Init ==
  /\ env \in Envs
  /\ counter = 0
  /\ sessions = <<>>
  /\ procs = <<>>
  /\ returned = <<>>
  /\ last = Last("init", NoId, NoArg, FALSE, {})
  /\ NotPtyIdle

\* -------------------------------------------------------- shell resolution

\* ShellDetector.detectShell: the system command processor on Windows, else
\* $SHELL when it exists on disk, else the first common shell on disk
detectShell(e) ==
  IF e.isWindows THEN Sh("", "cmd.exe")
  ELSE IF e.SHELL # NoShell /\ existsSync(e.disk, e.SHELL) THEN e.SHELL
  ELSE findFallbackShell(e.disk)

\* ShellDetector.resolveShellConfig: executable and arguments of a shell kind
resolveShellConfig(e, cfg) ==
  IF e.isWindows THEN [shell |-> Sh("", "powershell.exe"), args |-> <<"-NoLogo">>]
  ELSE [shell |-> Sh("/bin", cfg.shellType), args |-> <<"-i", "-l">>]

\* a resolution that looks at the shell configuration first
ResolveShellConfigFirst(e, opts) ==
  IF opts.shellConfig # NoConfig THEN resolveShellConfig(e, opts.shellConfig)
  ELSE IF opts.shell # NoShell THEN [shell |-> opts.shell, args |-> opts.args]
  ELSE [shell |-> detectShell(e), args |-> opts.args]

\* create, lines 116-129: explicit shell > shell configuration > detection
ResolveShell(e, opts) ==
  IF opts.shell # NoShell THEN [shell |-> opts.shell, args |-> opts.args]
  ELSE IF opts.shellConfig # NoConfig THEN resolveShellConfig(e, opts.shellConfig)
  ELSE [shell |-> detectShell(e), args |-> opts.args]

\* the test of create, line 131
ShellMissing(e, shell) ==
  ~e.isWindows /\ IncludesSlash(shell) /\ ~existsSync(e.disk, shell)

\* a create that spawns what was asked for, missing or not
ShellBeforeSpawnAsRequested(e, r) == r

\* create, lines 131-136: the shell and arguments of the first spawn
ShellBeforeSpawn(e, r) ==
  IF ShellMissing(e, r.shell)
    THEN LET fallbackShell == findFallbackShell(e.disk)
         IN [shell |-> fallbackShell, args |-> adjustArgsForShell(fallbackShell, r.args)]
    ELSE r

\* create, lines 153-157: whether a second spawn follows a failed first one
RetriesSpawnNever(e, first) == FALSE

RetriesSpawn(e, first) ==
  ~e.isWindows /\ findFallbackShell(e.disk) # first.shell

\* create, lines 155-157: the shell and arguments of the second spawn
ShellOfRetry(e, first) ==
  LET fallbackShell == findFallbackShell(e.disk)
  IN [shell |-> fallbackShell, args |-> adjustArgsForShell(fallbackShell, first.args)]

\* ------------------------------------------------------------- handlers

\* a counter that is read but never advanced past its first value
NextCounterStale(c) == IF c = 0 THEN 1 ELSE c

\* const id = `pty-${++this.counter}`
NextCounter(c) == c + 1

\* a process as pty.spawn returns it
NewProc(pid, hasOnExit) ==
  [status |-> "running", pid |-> pid, hasOnExit |-> hasOnExit,
   termReqs |-> <<>>, input |-> <<>>, output |-> 0, exitCalls |-> 0]

\* this.sessions.set(id, { pty, cwd, onData, onExit })
Register(m, id, handle, cwd) ==
  MapSet(m, id, [key |-> id, pty |-> handle, cwd |-> cwd])

\* a write that dereferences the looked-up session without testing it
writeUnchecked(st, id, data) ==
  IF MapHas(st.m, id)
    THEN LET session == MapGet(st.m, id)
         IN [st EXCEPT !.p[session.pty].input = Append(@, <<"write", data>>)]
    ELSE [st EXCEPT !.raised = TRUE]

\* PtyManager.write
write(st, id, data) ==
  IF MapHas(st.m, id)
    THEN LET session == MapGet(st.m, id)
         IN [st EXCEPT !.p[session.pty].input = Append(@, <<"write", data>>)]
    ELSE st

\* a resize that overtakes the input already forwarded
resizeOvertakes(st, id, cols, rows) ==
  IF MapHas(st.m, id)
    THEN LET session == MapGet(st.m, id)
         IN [st EXCEPT !.p[session.pty].input = <<<<"resize", cols, rows>>>> \o @]
    ELSE st

\* PtyManager.resize
resize(st, id, cols, rows) ==
  IF MapHas(st.m, id)
    THEN LET session == MapGet(st.m, id)
         IN [st EXCEPT !.p[session.pty].input = Append(@, <<"resize", cols, rows>>)]
    ELSE st

\* a destroy that kills and leaves the removal to the exit listener
destroyKeepsEntry(st, id) ==
  IF MapHas(st.m, id)
    THEN LET session == MapGet(st.m, id)
         IN [st EXCEPT !.p[session.pty].termReqs = Append(@, "kill")]
    ELSE st

\* PtyManager.destroy: taskkill of the tree on Windows when the pid is known,
\* else the handle's own kill; then the entry is deleted
destroy(st, id) ==
  IF MapHas(st.m, id)
    THEN LET session == MapGet(st.m, id)
             pid == st.p[session.pty].pid
             how == IF env.isWindows /\ pid # 0 THEN "taskkill" ELSE "kill"
         IN [st EXCEPT !.p[session.pty].termReqs = Append(@, how),
                       !.m = MapDelete(st.m, id)]
    ELSE st

\* for (const id of this.sessions.keys()) this.destroy(id): the iterator
\* walks the entry list of the Map while destroy deletes from it
RECURSIVE DestroyAllFrom(_, _)
DestroyAllFrom(st, i) ==
  IF i > Len(st.m) THEN st
  ELSE IF st.m[i] = Tombstone THEN DestroyAllFrom(st, i + 1)
  ELSE DestroyAllFrom(destroy(st, st.m[i].key), i + 1)

\* PtyManager.destroyAll
destroyAll(st) == DestroyAllFrom(st, 1)

RECURSIVE DestroyByWorkdirFrom(_, _, _)
DestroyByWorkdirFrom(st, normalizedWorkdir, i) ==
  IF i > Len(st.m) THEN st
  ELSE IF st.m[i] = Tombstone THEN DestroyByWorkdirFrom(st, normalizedWorkdir, i + 1)
  ELSE LET normalizedCwd == NormalizeDir(st.m[i].cwd)
       IN IF WorkdirMatches(normalizedCwd, normalizedWorkdir)
            THEN DestroyByWorkdirFrom(destroy(st, st.m[i].key), normalizedWorkdir, i + 1)
            ELSE DestroyByWorkdirFrom(st, normalizedWorkdir, i + 1)

\* PtyManager.destroyByWorkdir
destroyByWorkdir(st, workdir) == DestroyByWorkdirFrom(st, NormalizeDir(workdir), 1)

\* an exit listener that forgets the registry
onExitListenerKeepsEntry(st, id, handle) ==
  [st EXCEPT !.p[handle].status = "exited",
             !.p[handle].exitCalls = IF st.p[handle].hasOnExit THEN @ + 1 ELSE @]

\* the onExit listener create wires: this.sessions.delete(id); onExit?.(...)
onExitListener(st, id, handle) ==
  [st EXCEPT !.m = MapDelete(st.m, id),
             !.p[handle].status = "exited",
             !.p[handle].exitCalls = IF st.p[handle].hasOnExit THEN @ + 1 ELSE @]

\* the onData listener create wires: onData(data)
onDataListener(st, handle) ==
  [st EXCEPT !.p[handle].output = @ + 1]

\* the ids an operation removed from the registry
Removed(before, after) == MapKeys(before) \ MapKeys(after)

\* -------------------------------------------------------------- actions

CreateOptions ==
  { [shell |-> r.shell, args |-> r.args, shellConfig |-> r.shellConfig, cwd |-> c] :
      r \in ShellRequests, c \in CwdOptions }

\* a create whose failed spawn leaves a process with its callbacks behind
CreateLeavesProcess(opts, hasOnExit, ok1, ok2, pid) ==
  /\ counter < MaxCreate
  /\ LET n == NextCounter(counter)
         id == MkId(n)
         cwd == IF opts.cwd # <<>> THEN opts.cwd ELSE Home
         requested == ResolveShell(env, opts)
         first == ShellBeforeSpawn(env, requested)
         retry == ~ok1 /\ RetriesSpawn(env, first)
         second == ShellOfRetry(env, first)
         spawned == ok1 \/ (retry /\ ok2)
         attempts == IF retry THEN <<first, second>> ELSE <<first>>
         used == IF ok1 THEN first ELSE second
     IN /\ (~retry => ok2)
        /\ (pid = 0 => env.isWindows /\ spawned)
        /\ (~spawned => hasOnExit)
        /\ counter' = n
        /\ IF spawned
             THEN /\ procs' = procs @@ (n :> NewProc(pid, hasOnExit))
                  /\ sessions' = MapCompact(Register(sessions, id, n, cwd))
                  /\ returned' = Append(returned, id)
             ELSE /\ procs' = procs @@ (n :> NewProc(pid, hasOnExit))
                  /\ UNCHANGED <<sessions, returned>>
        /\ last' = Last("create", id,
                        [requested |-> requested,
                         missing |-> ShellMissing(env, requested.shell),
                         attempts |-> attempts,
                         firstOk |-> ok1,
                         outcomes |-> IF retry THEN <<ok1, ok2>> ELSE <<ok1>>,
                         used |-> IF spawned THEN used ELSE [shell |-> NoShell, args |-> <<>>]],
                        ~spawned, {})
  /\ UNCHANGED <<env, NotPty>>

\* PtyManager.create.  ok1 and ok2 say whether the first and the second
\* pty.spawn return (TRUE) or throw (FALSE); pid is the pid of the new handle.
Create(opts, hasOnExit, ok1, ok2, pid) ==
  /\ counter < MaxCreate
  /\ LET n == NextCounter(counter)
         id == MkId(n)
         cwd == IF opts.cwd # <<>> THEN opts.cwd ELSE Home
         requested == ResolveShell(env, opts)
         first == ShellBeforeSpawn(env, requested)
         retry == ~ok1 /\ RetriesSpawn(env, first)
         second == ShellOfRetry(env, first)
         spawned == ok1 \/ (retry /\ ok2)
         attempts == IF retry THEN <<first, second>> ELSE <<first>>
         used == IF ok1 THEN first ELSE second
     IN /\ (~retry => ok2)
        /\ (pid = 0 => env.isWindows /\ spawned)
        /\ (~spawned => hasOnExit)
        /\ counter' = n
        /\ IF spawned
             THEN /\ procs' = procs @@ (n :> NewProc(pid, hasOnExit))
                  /\ sessions' = MapCompact(Register(sessions, id, n, cwd))
                  /\ returned' = Append(returned, id)
             ELSE UNCHANGED <<procs, sessions, returned>>
        /\ last' = Last("create", id,
                        [requested |-> requested,
                         missing |-> ShellMissing(env, requested.shell),
                         attempts |-> attempts,
                         firstOk |-> ok1,
                         outcomes |-> IF retry THEN <<ok1, ok2>> ELSE <<ok1>>,
                         used |-> IF spawned THEN used ELSE [shell |-> NoShell, args |-> <<>>]],
                        ~spawned, {})
  /\ UNCHANGED <<env, NotPty>>

Write(id, data) ==
  /\ MapHas(sessions, id) => TotalInput + TotalOutput < MaxIO
  /\ LET st == write(St, id, data)
     IN /\ sessions' = MapCompact(st.m)
        /\ procs' = st.p
        /\ last' = Last("write", id, data, st.raised, {})
  /\ UNCHANGED <<env, counter, returned, NotPty>>

Resize(id, dims) ==
  /\ MapHas(sessions, id) => TotalInput + TotalOutput < MaxIO
  /\ LET st == resize(St, id, dims[1], dims[2])
     IN /\ sessions' = MapCompact(st.m)
        /\ procs' = st.p
        /\ last' = Last("resize", id, dims, st.raised, {})
  /\ UNCHANGED <<env, counter, returned, NotPty>>

Destroy(id) ==
  /\ LET st == destroy(St, id)
     IN /\ sessions' = MapCompact(st.m)
        /\ procs' = st.p
        /\ last' = Last("destroy", id, NoArg, st.raised, Removed(sessions, st.m))
  /\ UNCHANGED <<env, counter, returned, NotPty>>

DestroyAll ==
  /\ LET st == destroyAll(St)
     IN /\ sessions' = MapCompact(st.m)
        /\ procs' = st.p
        /\ last' = Last("destroyAll", NoId, NoArg, st.raised, Removed(sessions, st.m))
  /\ UNCHANGED <<env, counter, returned, NotPty>>

DestroyByWorkdir(workdir) ==
  /\ LET st == destroyByWorkdir(St, workdir)
     IN /\ sessions' = MapCompact(st.m)
        /\ procs' = st.p
        /\ last' = Last("destroyByWorkdir", NoId, workdir, st.raised,
                        Removed(sessions, st.m))
  /\ UNCHANGED <<env, counter, returned, NotPty>>

\* the process of handle n reports its exit (on its own or after a kill)
ProcessExit(n) ==
  /\ procs[n].status = "running"
  /\ LET st == onExitListener(St, MkId(n), n)
     IN /\ sessions' = MapCompact(st.m)
        /\ procs' = st.p
        /\ last' = Last("exit", MkId(n), NoArg, st.raised, Removed(sessions, st.m))
  /\ UNCHANGED <<env, counter, returned, NotPty>>

\* the process of handle n produces a chunk of output
ProcessData(n) ==
  /\ procs[n].status = "running"
  /\ TotalInput + TotalOutput < MaxIO
  /\ LET st == onDataListener(St, n)
     IN /\ sessions' = MapCompact(st.m)
        /\ procs' = st.p
        /\ last' = Last("data", MkId(n), NoArg, st.raised, {})
  /\ UNCHANGED <<env, counter, returned, NotPty>>

Next ==
  \/ \E opts \in CreateOptions, hasOnExit, ok1, ok2 \in BOOLEAN, pid \in {0, 100} :
       Create(opts, hasOnExit, ok1, ok2, pid)
  \/ \E id \in AllIds, data \in WriteData : Write(id, data)
  \/ \E id \in AllIds, dims \in ResizeDims : Resize(id, dims)
  \/ \E id \in AllIds : Destroy(id)
  \/ DestroyAll
  \/ \E workdir \in WorkdirOptions : DestroyByWorkdir(workdir)
  \/ \E n \in DOMAIN procs : ProcessExit(n)
  \/ \E n \in DOMAIN procs : ProcessData(n)

Spec == Init /\ [][Next]_vars

\* ------------------------------------------------------------ properties

Registered(id) == MapHas(sessions, id)

\* the handle a successful create(id) spawned
HandleOf(id) == id[2]

Spawned(id) == HandleOf(id) \in DOMAIN procs

ExitReported(id) == Spawned(id) /\ procs[HandleOf(id)].status = "exited"

ExplicitlyDestroyed(id) == Spawned(id) /\ procs[HandleOf(id)].termReqs # <<>>

EntriesOfHandle(n) == {i \in 1..Len(sessions) : sessions[i].pty = n}

\* C1: in every reachable state an id is registered if and only if its
\* create succeeded, its process has not reported exit and it was not
\* explicitly destroyed; every live handle has exactly one registry entry and
\* no other handle has any.
C1_RegistryInvariant ==
  /\ \A n \in 1..(counter + 1) :
       Registered(MkId(n)) <=>
         /\ Spawned(MkId(n))
         /\ ~ExitReported(MkId(n))
         /\ ~ExplicitlyDestroyed(MkId(n))
  /\ \A n \in DOMAIN procs :
       Cardinality(EntriesOfHandle(n)) =
         IF procs[n].status = "running" /\ procs[n].termReqs = <<>> THEN 1 ELSE 0
  /\ \A i \in 1..Len(sessions) : sessions[i].pty \in DOMAIN procs

\* one session still registered beside one that exited and was never
\* destroyed, after an exit notification
C1_Witness ==
  /\ last.op = "exit"
  /\ \E n, k \in DOMAIN procs :
       /\ Registered(MkId(n))
       /\ ~Registered(MkId(k))
       /\ procs[k].status = "exited"
       /\ procs[k].termReqs = <<>>

\* C2: the ids successful creates return are pairwise different and
\* increasing, whatever became of the earlier sessions and of the creates that
\* failed in between; every registered id is one of them, and the id the
\* last create returned is registered exactly once.
C2_FreshId ==
  /\ \A i, j \in 1..Len(returned) : i < j => HandleOf(returned[i]) < HandleOf(returned[j])
  /\ MapKeys(sessions) \subseteq {returned[i] : i \in 1..Len(returned)}
  /\ \A i, j \in 1..Len(sessions) : sessions[i].key = sessions[j].key => i = j
  /\ (last.op = "create" /\ ~last.raised) =>
       /\ returned # <<>>
       /\ returned[Len(returned)] = last.id
       /\ Registered(last.id)

\* a second successful create after the first session is gone
C2_Witness ==
  /\ last.op = "create"
  /\ ~last.raised
  /\ Len(returned) = 2
  /\ ~Registered(returned[1])

\* C3 (as claimed): whichever of destroy(id) and the exit notification comes
\* second changes nothing: not the registry, not the number of exit
\* callbacks the caller saw, not the termination requests.
C3_SecondEventIsNoOp ==
  [][ LET id == last'.id
          n == HandleOf(id)
      IN (/\ last'.op \in {"exit", "destroy"}
          /\ n \in DOMAIN procs
          /\ \/ last'.op = "exit" /\ procs[n].termReqs # <<>>
             \/ last'.op = "destroy" /\ procs[n].status = "exited")
         => /\ sessions' = sessions
            /\ procs'[n].exitCalls = procs[n].exitCalls
            /\ procs'[n].termReqs = procs[n].termReqs ]_vars

\* C4: in every reachable state write, resize and destroy with an id that is
\* not registered (never issued, exited or destroyed) do not raise, forward
\* nothing to any process and leave the registry as it is.
C4_StaleIdNoOp ==
  \A id \in AllIds :
    ~Registered(id) =>
      /\ \A data \in WriteData : write(St, id, data) = St
      /\ \A dims \in ResizeDims : resize(St, id, dims[1], dims[2]) = St
      /\ destroy(St, id) = St

\* a write to a session whose process has already reported its exit
C4_Witness ==
  /\ last.op = "write"
  /\ ExitReported(last.id)
  /\ ~Registered(last.id)

\* C5: destroy(id) twice in a row leaves the state destroy(id) once leaves,
\* and the process of a registered id gets exactly one termination request;
\* no process ever holds more than one.
C5_DestroyIdempotent ==
  /\ \A id \in AllIds :
       LET once == destroy(St, id)
           twice == destroy(once, id)
       IN /\ twice = once
          /\ Registered(id) => Len(twice.p[HandleOf(id)].termReqs) = 1
  /\ \A n \in DOMAIN procs : Len(procs[n].termReqs) <= 1

\* destroy called again on a session an earlier destroy removed, before the
\* process reported its exit
C5_Witness ==
  /\ last.op = "destroy"
  /\ last.hits = {}
  /\ ExplicitlyDestroyed(last.id)
  /\ ~ExitReported(last.id)

\* C6: in the state right after destroy(id) on a session whose process has
\* not reported its exit, the id is not registered and the termination
\* request is issued: the removal does not wait for the exit notification.
C6_DestroyRemovesAtOnce ==
  (last.op = "destroy" /\ Spawned(last.id) /\ ~ExitReported(last.id)) =>
    /\ ~Registered(last.id)
    /\ Len(procs[HandleOf(last.id)].termReqs) = 1

\* destroy has just removed a registered session; its process still runs
C6_Witness ==
  /\ last.op = "destroy"
  /\ last.hits = {last.id}
  /\ procs[HandleOf(last.id)].status = "running"
  /\ ~Registered(last.id)

\* --- what "equal to D or a path-descendant of D" means: the components of a
\* path, split at either separator, in lower case, without trailing empty ones

IsSeparator(c) == c \in {"/", "\\"}

RECURSIVE SplitFrom(_, _, _, _)
SplitFrom(s, i, cur, acc) ==
  IF i > Len(s) THEN Append(acc, cur)
  ELSE IF IsSeparator(s[i]) THEN SplitFrom(s, i + 1, <<>>, Append(acc, cur))
  ELSE SplitFrom(s, i + 1, Append(cur, LowerChar(s[i])), acc)

RECURSIVE DropTrailingEmpty(_)
DropTrailingEmpty(cs) ==
  IF cs # <<>> /\ cs[Len(cs)] = <<>>
    THEN DropTrailingEmpty(SubSeq(cs, 1, Len(cs) - 1))
    ELSE cs

PathComponents(s) == DropTrailingEmpty(SplitFrom(s, 1, <<>>, <<>>))

IsUnder(cwd, dir) ==
  LET c == PathComponents(cwd)
      d == PathComponents(dir)
  IN Len(d) <= Len(c) /\ SubSeq(c, 1, Len(d)) = d

\* C7 (as claimed): after destroyByWorkdir(D) no registered session has a
\* working directory equal to D or below D, in whichever case, separator and
\* with or without trailing separator D and the directory are written.
C7_NoneLeftUnder ==
  last.op = "destroyByWorkdir" =>
    \A i \in 1..Len(sessions) : ~IsUnder(sessions[i].cwd, last.arg)

\* C8: in every reachable state destroyByWorkdir(D) leaves every session
\* whose working directory is neither D nor below D registered, and its
\* process gets no termination request (nor anything else).
C8_OutsideUntouched ==
  \A workdir \in WorkdirOptions :
    LET st == destroyByWorkdir(St, workdir)
    IN \A i \in 1..Len(sessions) :
         ~IsUnder(sessions[i].cwd, workdir) =>
           /\ MapHas(st.m, sessions[i].key)
           /\ MapGet(st.m, sessions[i].key) = sessions[i]
           /\ st.p[sessions[i].pty] = procs[sessions[i].pty]

\* destroyByWorkdir("/a") has destroyed a session while the one in the
\* sibling directory "/a2" is still registered
C8_Witness ==
  /\ last.op = "destroyByWorkdir"
  /\ last.arg = <<"/", "a">>
  /\ last.hits # {}
  /\ \E i \in 1..Len(sessions) :
       /\ sessions[i].cwd = <<"/", "a", "2">>
       /\ procs[sessions[i].pty].termReqs = <<>>

\* C9: after destroyAll the registry is empty and every session it removed
\* (every session registered at the call) holds exactly one termination
\* request.
C9_DestroyAllEmpties ==
  last.op = "destroyAll" =>
    /\ sessions = <<>>
    /\ \A id \in last.hits : Len(procs[HandleOf(id)].termReqs) = 1
    /\ \A n \in DOMAIN procs :
         procs[n].status = "running" => Len(procs[n].termReqs) = 1

\* destroyAll has destroyed two sessions in one call
C9_Witness ==
  /\ last.op = "destroyAll"
  /\ Cardinality(last.hits) >= 2
  /\ sessions = <<>>

\* --- the fallback shell: the first candidate on disk, /bin/sh when none is

CandidateSet == {candidates[i] : i \in 1..Len(candidates)}

IsFallbackChoice(shell) ==
  IF \E c \in CandidateSet : c \in env.disk
    THEN /\ shell \in CandidateSet \cap env.disk
         /\ \E i \in 1..Len(candidates) :
              /\ candidates[i] = shell
              /\ \A j \in 1..(i - 1) : candidates[j] \notin env.disk
    ELSE shell = Sh("/bin", "sh")

\* the session create has just registered works: a write reaches its
\* process, its output reaches the sink, destroy removes it
Functional(id) ==
  LET n == HandleOf(id)
  IN /\ Registered(id)
     /\ procs[n].status = "running"
     /\ write(St, id, "x").p[n].input = Append(procs[n].input, <<"write", "x">>)
     /\ onDataListener(St, n).p[n].output = procs[n].output + 1
     /\ ~MapHas(MapCompact(destroy(St, id).m), id)
     /\ Len(destroy(St, id).p[n].termReqs) = 1

\* C10 (as claimed): create with a shell path that is not on disk (POSIX)
\* succeeds and registers a working session.
C10_MissingShellAlwaysSucceeds ==
  (last.op = "create" /\ last.arg.missing) =>
    /\ ~last.raised
    /\ Functional(last.id)

\* C10 (amended): create with a shell path that is not on disk (POSIX)
\* spawns the fallback shell and never the missing one, and whenever that
\* spawn does not throw it succeeds and registers a working session.
C10_FallbackBeforeSpawn ==
  (last.op = "create" /\ last.arg.missing) =>
    /\ Len(last.arg.attempts) = 1
    /\ IsFallbackChoice(last.arg.attempts[1].shell)
    /\ last.arg.firstOk => (~last.raised /\ Functional(last.id))

\* create was asked for a shell that is not on disk and registered a session
\* running the fallback shell
C10_Witness ==
  /\ last.op = "create"
  /\ last.arg.missing
  /\ ~last.raised
  /\ last.arg.used.shell # last.arg.requested.shell
  /\ Registered(last.id)

\* --- the retry of create

\* C11 (as claimed): whenever the first spawn of create throws on POSIX,
\* create makes exactly one more attempt, with the fallback shell, and an
\* error reaches the caller only after that second attempt has failed.
C11_AlwaysRetriesOnce ==
  (last.op = "create" /\ ~last.arg.firstOk /\ ~env.isWindows) =>
    /\ Len(last.arg.attempts) = 2
    /\ IsFallbackChoice(last.arg.attempts[2].shell)
    /\ last.raised <=> ~last.arg.outcomes[2]

\* C11 (amended): when the first spawn of create throws, create retries
\* exactly once, with the fallback shell, if and only if the platform is
\* POSIX and the shell that has just failed is not the fallback shell itself;
\* it then succeeds exactly when the retry succeeds.  Without a retry (the
\* failed shell is the fallback shell, or the platform is not POSIX) the
\* error reaches the caller at once.  create never makes more than two
\* spawn attempts, and it raises only when no attempt has succeeded.
C11_RetryOnceUnlessFallback ==
  last.op = "create" =>
    LET a == last.arg
        retried == /\ ~a.firstOk
                   /\ ~env.isWindows
                   /\ ~IsFallbackChoice(a.attempts[1].shell)
    IN /\ Len(a.attempts) \in {1, 2}
       /\ Len(a.outcomes) = Len(a.attempts)
       /\ Len(a.attempts) = 2 <=> retried
       /\ retried =>
            /\ IsFallbackChoice(a.attempts[2].shell)
            /\ a.attempts[2].shell # a.attempts[1].shell
            /\ last.raised <=> ~a.outcomes[2]
            /\ a.outcomes[2] => Functional(last.id)
       /\ (~a.firstOk /\ ~retried) => last.raised
       /\ last.raised <=> \A i \in 1..Len(a.outcomes) : ~a.outcomes[i]
       /\ last.raised => ~Registered(last.id)

\* the first spawn of create has thrown, the retry with the fallback shell
\* has succeeded and the session is registered
C11_Witness ==
  /\ last.op = "create"
  /\ ~env.isWindows
  /\ last.arg.outcomes = <<FALSE, TRUE>>
  /\ ~last.raised
  /\ Registered(last.id)

\* ======================================================================
\* execInPty and killProcessTree (the shared shell utilities)
\* ======================================================================

\* ------------------------------------------------ bounds of the exec model

\* execInPty calls in flight at the same time
MaxCalls == 2

\* chunks of output the processes of all calls produce together
MaxChunks == 2

\* ---------------------------------------------------- terminal output text

\* Output is a sequence of characters.  ESC is \x1b; "1" and "0" stand for
\* the digits, "a", "b", "h" and "m" for the letters, " " for white space.
ESC == "ESC"

IsParam(ch) == ch \in {"0", "1", ";"}

IsLetter(ch) == ch \in {"a", "b", "h", "m"}

IsSpace(ch) == ch \in {" "}

\* the first index from i on whose character does not match [0-9;]
RECURSIVE ParamsEnd(_, _)
ParamsEnd(s, i) ==
  IF i <= Len(s) /\ IsParam(s[i]) THEN ParamsEnd(s, i + 1) ELSE i

\* the index after the match of /\x1b\[[0-9;]*[a-zA-Z]/ that starts at i,
\* 0 when there is none
MatchEnd(s, i) ==
  IF i + 1 <= Len(s) /\ s[i] = ESC /\ s[i + 1] = "["
    THEN LET j == ParamsEnd(s, i + 2)
         IN IF j <= Len(s) /\ IsLetter(s[j]) THEN j + 1 ELSE 0
    ELSE 0

\* str.replace(/.../g, ''): one pass from the left, the scan resumes after
\* each match and never looks at the text it has produced
RECURSIVE ReplaceFrom(_, _)
ReplaceFrom(s, i) ==
  IF i > Len(s) THEN <<>>
  ELSE IF MatchEnd(s, i) # 0 THEN ReplaceFrom(s, MatchEnd(s, i))
  ELSE <<s[i]>> \o ReplaceFrom(s, i + 1)

stripAnsiNothing(str) == str

stripAnsi(str) == ReplaceFrom(str, 1)

RECURSIVE trimStart(_)
trimStart(s) ==
  IF s # <<>> /\ IsSpace(Head(s)) THEN trimStart(Tail(s)) ELSE s

RECURSIVE trimEnd(_)
trimEnd(s) ==
  IF s # <<>> /\ IsSpace(s[Len(s)]) THEN trimEnd(SubSeq(s, 1, Len(s) - 1)) ELSE s

\* String.prototype.trim
trim(s) == trimEnd(trimStart(s))

\* the chunks a process writes: text after white space, the head and the
\* tail of a colour sequence cut in two, a cursor-visibility sequence
Chunks ==
  { <<" ", "a">>,
    <<ESC, "[", "1">>,
    <<"m", "b", " ">>,
    <<ESC, "[", "?", "1", "h">> }

ExitCodes == {0, 3}

\* ---------------------------------------------------------- killProcessTree

\* what killProcessTree is given: a pseudo-terminal handle (it has a pid
\* field and a kill method) or a bare pid
HandleTarget(pid) == [pid |-> pid, hasKill |-> TRUE]

PidTarget(pid) == [pid |-> pid, hasKill |-> FALSE]

Req(via, signal) == [via |-> via, signal |-> signal]

\* whether each call killProcessTree can make returns (TRUE) or throws
\* (FALSE): spawnSync('taskkill'), process.kill(-pid), target.kill,
\* process.kill(pid)
KillOutcomes == [taskkill : BOOLEAN, group : BOOLEAN, handle : BOOLEAN, pid : BOOLEAN]

\* one call: the request it makes and whether it throws
Call(via, signal, ok) == [reqs |-> <<Req(via, signal)>>, raised |-> ~ok]

Nothing == [reqs |-> <<>>, raised |-> FALSE]

\* try { first } catch { handler }
TryCatch(first, handler) ==
  IF first.raised
    THEN [reqs |-> first.reqs \o handler.reqs, raised |-> handler.raised]
    ELSE first

\* a try block whose error escapes
Uncaught(body) == body

\* try { body } catch { }
Caught(body) == TryCatch(body, Nothing)

\* a killProcessTree that does not look whether the target has a pid
killProcessTreeAnyPid(isWindows, target, signal, oc) ==
  Caught(IF isWindows
           THEN Call("taskkill", "/t /f", oc.taskkill)
           ELSE TryCatch(Call("group", signal, oc.group),
                         IF target.hasKill
                           THEN Call("handle", signal, oc.handle)
                           ELSE Call("pid", signal, oc.pid)))

\* a killProcessTree that signals the handle first and the group after it
killProcessTreeHandleFirst(isWindows, target, signal, oc) ==
  IF target.pid = 0
    THEN IF target.hasKill
           THEN Caught(Call("handle", signal, oc.handle))
           ELSE Nothing
    ELSE Caught(IF isWindows
                  THEN Call("taskkill", "/t /f", oc.taskkill)
                  ELSE TryCatch(IF target.hasKill
                                  THEN Call("handle", signal, oc.handle)
                                  ELSE Call("pid", signal, oc.pid),
                                Call("group", signal, oc.group)))

\* killProcessTree(target, signal): the termination requests it issues, in
\* order, and whether it raises to its caller
killProcessTree(isWindows, target, signal, oc) ==
  IF target.pid = 0
    THEN IF target.hasKill
           THEN Caught(Call("handle", signal, oc.handle))
           ELSE Nothing
    ELSE Caught(IF isWindows
                  THEN Call("taskkill", "/t /f", oc.taskkill)
                  ELSE TryCatch(Call("group", signal, oc.group),
                                IF target.hasKill
                                  THEN Call("handle", signal, oc.handle)
                                  ELSE Call("pid", signal, oc.pid)))

\* ---------------------------------------------------------------- execInPty

CallIds == 1..MaxCalls

\* a call that has not been made
IdleCall ==
  [started |-> FALSE, killOnTimeout |-> FALSE, output |-> <<>>,
   hasExited |-> FALSE, ptyProcess |-> 0, timer |-> "unset", log |-> <<>>]

\* the handlers work on the calls and the processes together
W == [c |-> calls, p |-> xprocs]

\* what a call does to the outside, in order: a termination request, and
\* resolve or reject of the promise it returned
Kill(handle) == [type |-> "kill", handle |-> handle]

Resolve(value) == [type |-> "resolve", value |-> value]

Reject(message) == [type |-> "reject", error |-> [name |-> "Error", message |-> message]]

clearTimeout(timer) == IF timer = "pending" THEN "cleared" ELSE timer

\* an executor whose catch block rejects and leaves the timer armed
execInPtyKeepsTimer(w, c, killOnTimeout, spawnOk, pid) ==
  LET begun == [IdleCall EXCEPT !.started = TRUE,
                                !.killOnTimeout = killOnTimeout,
                                !.timer = "pending"]
  IN IF spawnOk
       THEN [c |-> [w.c EXCEPT ![c] = [begun EXCEPT !.ptyProcess = c]],
             p |-> w.p @@ (c :> [status |-> "running", pid |-> pid, killed |-> <<>>])]
       ELSE [c |-> [w.c EXCEPT ![c] =
                      [begun EXCEPT !.log = Append(@, Reject(<<"spawn failed">>))]],
             p |-> w.p]

\* the executor of the promise: setTimeout, pty.spawn, onData, onExit; when
\* pty.spawn throws (spawnOk FALSE) the catch block rejects.  The handle of
\* the process of call c is c.
execInPty(w, c, killOnTimeout, spawnOk, pid) ==
  LET begun == [IdleCall EXCEPT !.started = TRUE,
                                !.killOnTimeout = killOnTimeout,
                                !.timer = "pending"]
  IN IF spawnOk
       THEN [c |-> [w.c EXCEPT ![c] = [begun EXCEPT !.ptyProcess = c]],
             p |-> w.p @@ (c :> [status |-> "running", pid |-> pid, killed |-> <<>>])]
       ELSE [c |-> [w.c EXCEPT ![c] =
                      [begun EXCEPT !.hasExited = TRUE,
                                    !.timer = clearTimeout(@),
                                    !.log = Append(@, Reject(<<"spawn failed">>))]],
             p |-> w.p]

\* an output buffer shared by all calls instead of one per call
onDataShared(w, c, data) ==
  [w EXCEPT !.c = [k \in DOMAIN w.c |-> [w.c[k] EXCEPT !.output = @ \o data]]]

\* ptyProcess.onData((data) => { output += data })
onData(w, c, data) ==
  [w EXCEPT !.c[c].output = @ \o data]

\* an exit listener without the hasExited guard
onExitUnguarded(w, c, exitCode) ==
  LET cleaned == trim(stripAnsi(w.c[c].output))
  IN [w EXCEPT !.c[c].hasExited = TRUE,
               !.c[c].timer = clearTimeout(@),
               !.c[c].log = Append(@, IF exitCode = 0
                                        THEN Resolve(cleaned)
                                        ELSE Reject(<<"Command exited with code ", exitCode>>))]

\* ptyProcess.onExit(({ exitCode }) => ...)
onExit(w, c, exitCode) ==
  IF w.c[c].hasExited THEN w
  ELSE LET cleaned == trim(stripAnsi(w.c[c].output))
       IN [w EXCEPT !.c[c].hasExited = TRUE,
                    !.c[c].timer = clearTimeout(@),
                    !.c[c].log = Append(@, IF exitCode = 0
                                             THEN Resolve(cleaned)
                                             ELSE Reject(<<"Command exited with code ", exitCode>>))]

\* a timeout callback that settles before it terminates the process
onTimeoutSettlesFirst(w, c, isWindows, oc) ==
  LET call == w.c[c]
      h == call.ptyProcess
      cleaned == trim(stripAnsi(call.output))
  IN IF ~call.hasExited /\ h # 0
       THEN [w EXCEPT !.c[c].hasExited = TRUE,
                      !.c[c].timer = "fired",
                      !.c[c].log = @ \o <<IF call.killOnTimeout
                                            THEN Resolve(cleaned)
                                            ELSE Reject(<<"Detection timeout">>),
                                          Kill(h)>>,
                      !.p[h].killed = @ \o killProcessTree(isWindows,
                                             HandleTarget(w.p[h].pid), "SIGKILL", oc).reqs]
       ELSE [w EXCEPT !.c[c].timer = "fired"]

\* a callback that kills and leaves the settlement to the exit handler
onTimeoutWaitsForExit(w, c, isWindows, oc) ==
  LET call == w.c[c]
      h == call.ptyProcess
      kill == killProcessTree(isWindows, HandleTarget(w.p[h].pid), "SIGKILL", oc)
  IN IF ~call.hasExited /\ h # 0
       THEN [w EXCEPT !.c[c].timer = "fired",
                      !.c[c].log = @ \o <<Kill(h)>>,
                      !.p[h].killed = @ \o kill.reqs]
       ELSE [w EXCEPT !.c[c].timer = "fired"]

\* the callback of setTimeout(..., timeout); an error killProcessTree raised
\* would end the callback before it settles
onTimeout(w, c, isWindows, oc) ==
  LET call == w.c[c]
      h == call.ptyProcess
      cleaned == trim(stripAnsi(call.output))
      kill == killProcessTree(isWindows, HandleTarget(w.p[h].pid), "SIGKILL", oc)
  IN IF ~call.hasExited /\ h # 0
       THEN [w EXCEPT !.c[c].hasExited = TRUE,
                      !.c[c].timer = "fired",
                      !.c[c].log = @ \o (IF kill.raised
                                           THEN <<Kill(h)>>
                                           ELSE <<Kill(h),
                                                  IF call.killOnTimeout
                                                    THEN Resolve(cleaned)
                                                    ELSE Reject(<<"Detection timeout">>)>>),
                      !.p[h].killed = @ \o kill.reqs]
       ELSE [w EXCEPT !.c[c].timer = "fired"]

\* ------------------------------------------------- actions of the exec model

Ev(ev, arg) == [ev |-> ev, arg |-> arg]

DataEvents(h) == Len(SelectSeq(h, LAMBDA e : e.ev = "data"))

TotalChunks == LET RECURSIVE Sum(_)
                   Sum(S) == IF S = {} THEN 0
                             ELSE LET c == CHOOSE x \in S : TRUE
                                  IN DataEvents(hist[c]) + Sum(S \ {c})
               IN Sum(CallIds)

InitExec ==
  /\ env \in Envs
  /\ counter = 0
  /\ sessions = <<>>
  /\ procs = <<>>
  /\ returned = <<>>
  /\ last = Last("init", NoId, NoArg, FALSE, {})
  /\ calls = [c \in CallIds |-> IdleCall]
  /\ xprocs = <<>>
  /\ hist = [c \in CallIds |-> <<>>]
  /\ penv = <<>>
  /\ built = <<>>
  /\ os = <<>>
  /\ kcall = <<>>
  /\ settings = <<>>
  /\ shcall = <<>>
  /\ submitted = <<>>
  /\ ManagersIdle

NotExec == <<env, counter, sessions, procs, returned, last, penv, built,
            os, kcall, settings, shcall, submitted, Managers>>

\* a caller calls execInPty(command, { killOnTimeout }); pty.spawn returns a
\* handle with the given pid (spawnOk) or throws
ExecStart(c, killOnTimeout, spawnOk, pid) ==
  /\ ~calls[c].started
  /\ pid = 0 => env.isWindows /\ spawnOk
  /\ LET w == execInPty(W, c, killOnTimeout, spawnOk, pid)
     IN /\ calls' = w.c
        /\ xprocs' = w.p
  /\ hist' = [hist EXCEPT ![c] = Append(@, Ev("start", <<killOnTimeout, spawnOk, pid>>))]
  /\ UNCHANGED NotExec

\* the process of call c writes a chunk
ExecData(c, data) ==
  /\ c \in DOMAIN xprocs
  /\ xprocs[c].status = "running"
  /\ TotalChunks < MaxChunks
  /\ LET w == onData(W, c, data)
     IN /\ calls' = w.c
        /\ xprocs' = w.p
  /\ hist' = [hist EXCEPT ![c] = Append(@, Ev("data", <<data>>))]
  /\ UNCHANGED NotExec

\* the process of call c reports its exit, on its own or after a kill
ExecExit(c, exitCode) ==
  /\ c \in DOMAIN xprocs
  /\ xprocs[c].status = "running"
  /\ LET w == onExit(W, c, exitCode)
     IN /\ calls' = w.c
        /\ xprocs' = [w.p EXCEPT ![c].status = "exited"]
  /\ hist' = [hist EXCEPT ![c] = Append(@, Ev("exit", <<exitCode>>))]
  /\ UNCHANGED NotExec

\* the timer of call c fires; oc says how the calls killProcessTree makes
\* end (TRUE for a call it does not make)
ExecTimeout(c, oc) ==
  /\ calls[c].timer = "pending"
  /\ oc.taskkill /\ oc.pid
  /\ LET kills == ~calls[c].hasExited /\ calls[c].ptyProcess # 0
         hasPid == kills /\ xprocs[c].pid # 0
     IN /\ ~oc.group => (hasPid /\ ~env.isWindows)
        /\ ~oc.handle => (kills /\ (~hasPid \/ (~env.isWindows /\ ~oc.group)))
  /\ LET w == onTimeout(W, c, env.isWindows, oc)
     IN /\ calls' = w.c
        /\ xprocs' = w.p
  /\ hist' = [hist EXCEPT ![c] = Append(@, Ev("timeout", <<oc>>))]
  /\ UNCHANGED NotExec

NextExec ==
  \/ \E c \in CallIds, killOnTimeout, spawnOk \in BOOLEAN, pid \in {0, 100} :
       ExecStart(c, killOnTimeout, spawnOk, pid)
  \/ \E c \in CallIds, data \in Chunks : ExecData(c, data)
  \/ \E c \in CallIds, exitCode \in ExitCodes : ExecExit(c, exitCode)
  \/ \E c \in CallIds, oc \in KillOutcomes : ExecTimeout(c, oc)

SpecExec == InitExec /\ [][NextExec]_vars

\* ------------------------------------------- properties of the exec model

\* what call c would have done had it run alone and seen the same events
Step(w, c, e) ==
  CASE e.ev = "start" -> execInPty(w, c, e.arg[1], e.arg[2], e.arg[3])
    [] e.ev = "data" -> onData(w, c, e.arg[1])
    [] e.ev = "exit" -> [onExit(w, c, e.arg[1]) EXCEPT !.p[c].status = "exited"]
    [] e.ev = "timeout" -> onTimeout(w, c, env.isWindows, e.arg[1])

RECURSIVE ReplayFrom(_, _, _, _)
ReplayFrom(w, c, h, i) ==
  IF i > Len(h) THEN w ELSE ReplayFrom(Step(w, c, h[i]), c, h, i + 1)

Alone(c) == ReplayFrom([c |-> (c :> IdleCall), p |-> <<>>], c, hist[c], 1)

\* the settlements of the promise of call c, in order
Settlements(c) == SelectSeq(calls[c].log, LAMBDA x : x.type \in {"resolve", "reject"})

Kills(c) == SelectSeq(calls[c].log, LAMBDA x : x.type = "kill")

\* the index in hist[c] of the first exit or timeout event, 0 when none
RECURSIVE FirstEnd(_, _)
FirstEnd(h, i) ==
  IF i > Len(h) THEN 0
  ELSE IF h[i].ev \in {"exit", "timeout"} THEN i
  ELSE FirstEnd(h, i + 1)

EndOf(c) == FirstEnd(hist[c], 1)

\* the output the process of call c has written in the first n events
RECURSIVE Written(_, _)
Written(h, n) ==
  IF n = 0 THEN <<>>
  ELSE Written(h, n - 1) \o (IF h[n].ev = "data" THEN h[n].arg[1] ELSE <<>>)

\* the parameter bytes of a control sequence (0x30 to 0x3f: the digits, ";"
\* and the private markers such as "?")
IsParameterByte(ch) == ch \in {"0", "1", ";", "?"}

RECURSIVE ParameterBytesEnd(_, _)
ParameterBytesEnd(s, i) ==
  IF i <= Len(s) /\ IsParameterByte(s[i]) THEN ParameterBytesEnd(s, i + 1) ELSE i

\* the text contains a complete terminal control sequence: ESC "[", any
\* parameter bytes, a final letter
HasControlSequence(s) ==
  \E i \in 1..Len(s) :
    /\ i + 1 <= Len(s)
    /\ s[i] = ESC
    /\ s[i + 1] = "["
    /\ LET j == ParameterBytesEnd(s, i + 2)
       IN j <= Len(s) /\ IsLetter(s[j])

\* the text with white space at both ends removed
IsTrimmed(s) == s = <<>> \/ (~IsSpace(s[1]) /\ ~IsSpace(s[Len(s)]))

\* the first exit or timeout event of call c
EndEvent(c) == hist[c][EndOf(c)]

ExitedFirst(c) == EndOf(c) # 0 /\ EndEvent(c).ev = "exit"

TimedOutFirst(c) == EndOf(c) # 0 /\ EndEvent(c).ev = "timeout"

\* the output call c had received when its first exit or timeout came,
\* cleaned as execInPty cleans it
CleanedAtEnd(c) == trim(stripAnsi(Written(hist[c], EndOf(c))))

\* --- exit with code 0

\* C12 (as claimed): when the command exits with code 0 before the timeout,
\* execInPty resolves with all the output received up to the exit, free of
\* terminal control sequences and trimmed; the timer is cancelled and no
\* termination is requested.
C12_ExitZeroResolvesClean ==
  \A c \in CallIds :
    (ExitedFirst(c) /\ EndEvent(c).arg[1] = 0) =>
      /\ Settlements(c) = <<Resolve(CleanedAtEnd(c))>>
      /\ ~HasControlSequence(Settlements(c)[1].value)
      /\ IsTrimmed(Settlements(c)[1].value)
      /\ calls[c].timer = "cleared"
      /\ Kills(c) = <<>>
      /\ xprocs[c].killed = <<>>

\* C12 without the completeness of the stripping: the value is the output
\* up to the exit as stripAnsi and trim leave it
C12_ExitZeroUpToStripping ==
  \A c \in CallIds :
    (ExitedFirst(c) /\ EndEvent(c).arg[1] = 0) =>
      /\ Settlements(c) = <<Resolve(CleanedAtEnd(c))>>
      /\ IsTrimmed(Settlements(c)[1].value)
      /\ calls[c].timer = "cleared"
      /\ Kills(c) = <<>>
      /\ xprocs[c].killed = <<>>

\* --- exit with another code

\* C13 (as claimed): when the command exits with a code other than 0 before
\* the timeout, execInPty fails with a failure that carries the cleaned
\* output collected so far and the numeric exit code.
C13_FailureCarriesOutputAndCode ==
  \A c \in CallIds :
    (ExitedFirst(c) /\ EndEvent(c).arg[1] # 0) =>
      /\ Len(Settlements(c)) = 1
      /\ Settlements(c)[1].type = "reject"
      /\ LET error == Settlements(c)[1].error
         IN /\ "output" \in DOMAIN error
            /\ error.output = CleanedAtEnd(c)
            /\ "exitCode" \in DOMAIN error
            /\ error.exitCode = EndEvent(c).arg[1]

\* C13, what the failure is: an Error with a message that names the code
C13_FailureIsMessageOnly ==
  \A c \in CallIds :
    (ExitedFirst(c) /\ EndEvent(c).arg[1] # 0) =>
      /\ Settlements(c) =
           <<Reject(<<"Command exited with code ", EndEvent(c).arg[1]>>)>>
      /\ DOMAIN Settlements(c)[1].error = {"name", "message"}
      /\ calls[c].timer = "cleared"
      /\ Kills(c) = <<>>

\* --- timeout without killOnTimeout

\* C14: when the timeout comes first and killOnTimeout is false, execInPty
\* first requests the termination of the process of the call (of its whole
\* tree whenever the handle has a pid) and then fails with the timeout
\* failure; it never resolves on that path.
C14_TimeoutKillsThenFails ==
  \A c \in CallIds :
    (TimedOutFirst(c) /\ ~calls[c].killOnTimeout) =>
      /\ calls[c].log = <<Kill(c), Reject(<<"Detection timeout">>)>>
      /\ xprocs[c].killed # <<>>
      /\ xprocs[c].pid # 0 => xprocs[c].killed[1].via \in {"taskkill", "group"}
      /\ \A i \in 1..Len(calls[c].log) : calls[c].log[i].type # "resolve"

\* a call without killOnTimeout has timed out after some output and its
\* process has reported its exit afterwards
C14_Witness ==
  \E c \in CallIds :
    /\ TimedOutFirst(c)
    /\ ~calls[c].killOnTimeout
    /\ Written(hist[c], EndOf(c)) # <<>>
    /\ xprocs[c].status = "exited"
    /\ Len(Settlements(c)) = 1

\* --- timeout with killOnTimeout

\* C15 (as claimed): when the timeout comes first and killOnTimeout is true,
\* execInPty requests the termination of the process and resolves (it never
\* fails) with exactly the output collected before the timeout, free of
\* terminal control sequences and trimmed, also when that output is empty.
C15_TimeoutResolvesClean ==
  \A c \in CallIds :
    (TimedOutFirst(c) /\ calls[c].killOnTimeout) =>
      /\ calls[c].log = <<Kill(c), Resolve(CleanedAtEnd(c))>>
      /\ xprocs[c].killed # <<>>
      /\ ~HasControlSequence(Settlements(c)[1].value)
      /\ IsTrimmed(Settlements(c)[1].value)
      /\ Written(hist[c], EndOf(c)) = <<>> => Settlements(c)[1].value = <<>>

\* C15 without the completeness of the stripping
C15_TimeoutResolvesUpToStripping ==
  \A c \in CallIds :
    (TimedOutFirst(c) /\ calls[c].killOnTimeout) =>
      /\ calls[c].log = <<Kill(c), Resolve(CleanedAtEnd(c))>>
      /\ xprocs[c].killed # <<>>
      /\ IsTrimmed(Settlements(c)[1].value)
      /\ Written(hist[c], EndOf(c)) = <<>> => Settlements(c)[1].value = <<>>

\* --- exit and timeout race

\* the settlement the first exit or timeout event of call c calls for
ExpectedSettlement(c) ==
  IF EndEvent(c).ev = "exit"
    THEN IF EndEvent(c).arg[1] = 0
           THEN Resolve(CleanedAtEnd(c))
           ELSE Reject(<<"Command exited with code ", EndEvent(c).arg[1]>>)
    ELSE IF calls[c].killOnTimeout
           THEN Resolve(CleanedAtEnd(c))
           ELSE Reject(<<"Detection timeout">>)

\* C16: a call never settles twice, and once its process has exited or its
\* timer has fired it has settled exactly once, with the outcome of
\* whichever came first.  The event that comes second changes nothing: an
\* exit after the timeout does not settle again and leaves the value as it
\* is, a timeout after the exit requests no termination, and output that
\* arrives after the settlement is not part of the result.
C16_SettlesOnceFirstWins ==
  \A c \in CallIds :
    /\ Len(Settlements(c)) <= 1
    /\ EndOf(c) # 0 =>
         /\ Settlements(c) = <<ExpectedSettlement(c)>>
         /\ (EndEvent(c).ev = "exit") =>
              /\ Kills(c) = <<>>
              /\ xprocs[c].killed = <<>>
              /\ calls[c].timer = "cleared"
         /\ (EndEvent(c).ev = "timeout") => Len(Kills(c)) = 1
    /\ calls[c].hasExited =>
         /\ \A exitCode \in ExitCodes : onExit(W, c, exitCode) = W
         /\ \A oc \in KillOutcomes :
              LET w == onTimeout(W, c, env.isWindows, oc)
              IN /\ w.p = xprocs
                 /\ w.c = [calls EXCEPT ![c].timer = "fired"]
         /\ \A data \in Chunks :
              SelectSeq(onData(W, c, data).c[c].log,
                        LAMBDA x : x.type \in {"resolve", "reject"}) = Settlements(c)

\* a call has timed out, its process has written more output and has then
\* reported its exit
C16_Witness ==
  \E c \in CallIds :
    /\ TimedOutFirst(c)
    /\ Len(hist[c]) = EndOf(c) + 2
    /\ hist[c][EndOf(c) + 1].ev = "data"
    /\ hist[c][EndOf(c) + 2].ev = "exit"
    /\ calls[c].output # <<>>
    /\ Len(Settlements(c)) = 1

\* --- control sequences in what is returned

\* C17 (as claimed): no string execInPty returns contains a terminal control
\* sequence, whatever the raw output and on every path that returns one.
C17_NoControlSequenceReturned ==
  \A c \in CallIds :
    \A i \in 1..Len(calls[c].log) :
      calls[c].log[i].type = "resolve" => ~HasControlSequence(calls[c].log[i].value)

\* --- concurrent calls

\* C18: concurrent calls are independent.  In every interleaving each call
\* is in the state, and has the outcome, it would have had alone with the
\* same events; its process has received the termination requests it would
\* have received alone; its result is made of the output of its own process
\* only; it requests the termination of no process but its own.
C18_CallsIndependent ==
  \A c \in CallIds :
    /\ calls[c] = Alone(c).c[c]
    /\ c \in DOMAIN xprocs => xprocs[c] = Alone(c).p[c]
    /\ c \notin DOMAIN xprocs => c \notin DOMAIN Alone(c).p
    /\ calls[c].output = Written(hist[c], Len(hist[c]))
    /\ \A i \in 1..Len(calls[c].log) :
         /\ calls[c].log[i].type = "kill" => calls[c].log[i].handle = c
         /\ calls[c].log[i].type = "resolve" => calls[c].log[i].value = CleanedAtEnd(c)

\* two calls are in flight, both processes have written, one call has timed
\* out and the other has then resolved with its own output
C18_Witness ==
  \E c, d \in CallIds :
    /\ c # d
    /\ TimedOutFirst(c)
    /\ ExitedFirst(d)
    /\ calls[c].output # <<>>
    /\ calls[d].output # <<>>
    /\ calls[c].output # calls[d].output
    /\ Settlements(d) = <<Resolve(CleanedAtEnd(d))>>
    /\ xprocs[d].killed = <<>>

\* ======================================================================
\* the environment of spawned processes
\* ======================================================================

\* ------------------------------------------------- bounds of the env model

\* tokens (directory names and delimiters) in the inherited PATH
MaxPathTokens == 3

\* ------------------------------------------------------------------ texts

\* An environment value is a sequence of tokens; the empty string is <<>>.
\* In a PATH the token DELIM is path.delimiter (":" or ";"); every other
\* token is a piece of text without a delimiter in it.
DELIM == "delim"

\* str.split(delimiter): the pieces between the delimiters ('' gives [''])
RECURSIVE splitDelimiter(_)
splitDelimiter(str) ==
  IF \E i \in 1..Len(str) : str[i] = DELIM
    THEN LET i == CHOOSE k \in 1..Len(str) :
                    /\ str[k] = DELIM
                    /\ \A j \in 1..(k - 1) : str[j] # DELIM
         IN <<SubSeq(str, 1, i - 1)>> \o splitDelimiter(SubSeq(str, i + 1, Len(str)))
    ELSE <<str>>

\* list.join(delimiter)
RECURSIVE joinDelimiter(_)
joinDelimiter(list) ==
  IF list = <<>> THEN <<>>
  ELSE IF Len(list) = 1 THEN list[1]
  ELSE list[1] \o <<DELIM>> \o joinDelimiter(Tail(list))

Elements(list) == {list[i] : i \in 1..Len(list)}

\* [...new Set(list)]: the first occurrence of every element, in order
RECURSIVE Dedup(_)
Dedup(list) ==
  IF list = <<>> THEN <<>>
  ELSE LET front == Dedup(SubSeq(list, 1, Len(list) - 1))
           x == list[Len(list)]
       IN IF x \in Elements(front) THEN front ELSE Append(front, x)

\* -------------------------------------------------------------- process.env

EmptyEnv == [k \in {} |-> <<>>]

\* process.env[k] || fallback
OrElse(e, k, fallback) ==
  IF k \in DOMAIN e /\ e[k] # <<>> THEN e[k] ELSE fallback

\* { ...a, ...b }
Spread(a, b) ==
  [k \in DOMAIN a \cup DOMAIN b |-> IF k \in DOMAIN b THEN b[k] ELSE a[k]]

\* os.homedir()
HomeDir == <<"~">>

\* the inherited PATH values: every text of at most MaxPathTokens tokens
\* made of delimiters, a well-known directory and two other directories
PathTokens == {DELIM, "/usr/local/bin", "/x", "/y"}

RECURSIVE TextsUpTo(_)
TextsUpTo(n) ==
  IF n = 0 THEN {<<>>}
  ELSE LET shorter == TextsUpTo(n - 1)
       IN shorter \cup {Append(t, k) : t \in shorter, k \in PathTokens}

InheritedPaths == TextsUpTo(MaxPathTokens)

\* the inherited locale: LANG unset, empty or set; LC_ALL unset or set
InheritedLocales ==
  { EmptyEnv,
    [LANG |-> <<>>],
    [LANG |-> <<"fr_FR.UTF-8">>],
    [LC_ALL |-> <<"C">>],
    [LANG |-> <<"fr_FR.UTF-8">>, LC_ALL |-> <<"C">>] }

\* process.env: PATH unset or one of the inherited values, a locale, and a
\* variable of the user
ProcessEnvs ==
  { Spread([USER |-> <<"u">>], Spread(l, p)) :
      l \in InheritedLocales,
      p \in {EmptyEnv} \cup {[PATH |-> t] : t \in InheritedPaths} }

\* the env option a caller passes: nothing, each of the keys the builders
\* set, a key of its own, all of them
OverrideOptions ==
  { EmptyEnv,
    [PATH |-> <<"/caller/bin">>],
    [TERM |-> <<"dumb">>],
    [COLORTERM |-> <<"no">>],
    [LANG |-> <<"de_DE.UTF-8">>],
    [LC_ALL |-> <<"de_DE.UTF-8">>],
    [FOO |-> <<"bar">>],
    [PATH |-> <<"/caller/bin">>, TERM |-> <<"dumb">>, COLORTERM |-> <<"no">>,
     LANG |-> <<"de_DE.UTF-8">>, LC_ALL |-> <<"de_DE.UTF-8">>, FOO |-> <<"bar">>] }

\* ------------------------------------------------------------ the builders

\* join(home, ...rest)
joinHome(home, rest) == home \o <<rest>>

additionalPathsWindows(home) ==
  << joinHome(home, "\\AppData\\Roaming\\npm"),
     joinHome(home, "\\.volta\\bin"),
     joinHome(home, "\\scoop\\shims") >>

additionalPathsUnix(home) ==
  << <<"/usr/local/bin">>,
     <<"/opt/homebrew/bin">>,
     <<"/opt/homebrew/sbin">>,
     joinHome(home, "/.nvm/versions/node/current/bin"),
     joinHome(home, "/.npm-global/bin"),
     joinHome(home, "/Library/pnpm"),
     joinHome(home, "/.local/share/pnpm"),
     joinHome(home, "/.bun/bin"),
     joinHome(home, "/.cargo/bin"),
     joinHome(home, "/.local/share/mise/shims"),
     joinHome(home, "/.local/bin") >>

additionalPaths(pe, isWindows) ==
  LET home == OrElse(pe, "HOME", OrElse(pe, "USERPROFILE", HomeDir))
  IN IF isWindows THEN additionalPathsWindows(home) ELSE additionalPathsUnix(home)

getEnhancedPath(pe, isWindows) ==
  LET currentPath == OrElse(pe, "PATH", <<>>)
      allPaths == Dedup(additionalPaths(pe, isWindows) \o splitDelimiter(currentPath))
  IN joinDelimiter(allPaths)

\* the env PtyManager.create passes to pty.spawn (both attempts)
createEnv(pe, isWindows, optionsEnv) ==
  Spread(Spread(pe, optionsEnv),
         [PATH |-> getEnhancedPath(pe, isWindows),
          TERM |-> <<"xterm-256color">>,
          COLORTERM |-> <<"truecolor">>])

getEnvForCommand(pe, isWindows, additionalEnv) ==
  Spread(Spread(pe, [PATH |-> getEnhancedPath(pe, isWindows),
                     LANG |-> OrElse(pe, "LANG", <<"en_US.UTF-8">>),
                     LC_ALL |-> OrElse(pe, "LC_ALL", OrElse(pe, "LANG", <<"en_US.UTF-8">>))]),
         additionalEnv)

\* the env execInPty passes to pty.spawn
execEnv(pe, isWindows) ==
  Spread(getEnvForCommand(pe, isWindows, EmptyEnv),
         [TERM |-> <<"xterm-256color">>, COLORTERM |-> <<"truecolor">>])

\* ------------------------------------------------- actions of the env model

Built(op, overrides, result) == [op |-> op, overrides |-> overrides, result |-> result]

InitEnv ==
  /\ env \in Envs
  /\ counter = 0
  /\ sessions = <<>>
  /\ procs = <<>>
  /\ returned = <<>>
  /\ last = Last("init", NoId, NoArg, FALSE, {})
  /\ calls = <<>>
  /\ xprocs = <<>>
  /\ hist = <<>>
  /\ penv \in ProcessEnvs
  /\ built = Built("none", EmptyEnv, EmptyEnv)
  /\ os = <<>>
  /\ kcall = <<>>
  /\ settings = <<>>
  /\ shcall = <<>>
  /\ submitted = <<>>
  /\ ManagersIdle

NotEnv == <<env, counter, sessions, procs, returned, last, calls, xprocs, hist, penv,
           os, kcall, settings, shcall, submitted, Managers>>

\* create builds the env of its spawn from options.env
BuildCreateEnv(optionsEnv) ==
  /\ built' = Built("create", optionsEnv, createEnv(penv, env.isWindows, optionsEnv))
  /\ UNCHANGED NotEnv

\* a caller builds the env of a command with its own additions
BuildCommandEnv(additionalEnv) ==
  /\ built' = Built("getEnvForCommand", additionalEnv,
                    getEnvForCommand(penv, env.isWindows, additionalEnv))
  /\ UNCHANGED NotEnv

\* execInPty builds the env of its spawn
BuildExecEnv ==
  /\ built' = Built("execInPty", EmptyEnv, execEnv(penv, env.isWindows))
  /\ UNCHANGED NotEnv

\* getEnhancedPath is called
EnhancePath ==
  /\ built' = Built("getEnhancedPath", EmptyEnv, getEnhancedPath(penv, env.isWindows))
  /\ UNCHANGED NotEnv

NextEnv ==
  \/ \E optionsEnv \in OverrideOptions : BuildCreateEnv(optionsEnv)
  \/ \E additionalEnv \in OverrideOptions : BuildCommandEnv(additionalEnv)
  \/ BuildExecEnv
  \/ EnhancePath

SpecEnv == InitEnv /\ [][NextEnv]_vars

\* ------------------------------------------- properties of the env model

\* C19 (as claimed): in the env create and getEnvForCommand build, every key
\* of the caller's overrides has the caller's value.
C19_OverridesAlwaysWin ==
  built.op \in {"create", "getEnvForCommand"} =>
    \A k \in DOMAIN built.overrides : built.result[k] = built.overrides[k]

\* C19, what holds: getEnvForCommand gives every key of additionalEnv the
\* caller's value; create does so for every key but PATH, TERM and
\* COLORTERM, which always have the values create sets
C19_OverridesWinExceptForced ==
  /\ built.op = "getEnvForCommand" =>
       \A k \in DOMAIN built.overrides : built.result[k] = built.overrides[k]
  /\ built.op = "create" =>
       /\ \A k \in DOMAIN built.overrides \ {"PATH", "TERM", "COLORTERM"} :
            built.result[k] = built.overrides[k]
       /\ built.result["PATH"] = getEnhancedPath(penv, env.isWindows)
       /\ built.result["TERM"] = <<"xterm-256color">>
       /\ built.result["COLORTERM"] = <<"truecolor">>

\* --- the enhanced PATH

\* the entries of the inherited PATH (none when it is unset or empty)
InheritedEntries ==
  SelectSeq(splitDelimiter(OrElse(penv, "PATH", <<>>)), LAMBDA x : x # <<>>)

Synthesized == additionalPaths(penv, env.isWindows)

IsDuplicateFree(list) ==
  \A i, j \in 1..Len(list) : list[i] = list[j] => i = j

\* list a is list b with some elements left out
RECURSIVE IsSubsequence(_, _)
IsSubsequence(a, b) ==
  IF a = <<>> THEN TRUE
  ELSE IF b = <<>> THEN FALSE
  ELSE IF Head(a) = Head(b) THEN IsSubsequence(Tail(a), Tail(b))
  ELSE IsSubsequence(a, Tail(b))

\* the synthesized directories come first, in their fixed order, and the
\* inherited-only entries follow in the order of the inherited PATH
GroupsInOrder(entries) ==
  /\ Len(entries) >= Len(Synthesized)
  /\ SubSeq(entries, 1, Len(Synthesized)) = Synthesized
  /\ LET rest == SubSeq(entries, Len(Synthesized) + 1, Len(entries))
     IN /\ \A i \in 1..Len(rest) : rest[i] \notin Elements(Synthesized)
        /\ IsSubsequence(SelectSeq(rest, LAMBDA x : x # <<>>), InheritedEntries)

\* C20 (as claimed): the list getEnhancedPath returns is not empty, contains
\* every inherited entry and every synthesized directory, has no entry twice
\* and no empty entry, and has the synthesized directories before the
\* inherited-only entries with the order of each group kept.
C20_EnhancedPathWellFormed ==
  built.op = "getEnhancedPath" =>
    LET entries == splitDelimiter(built.result)
    IN /\ built.result # <<>>
       /\ Elements(InheritedEntries) \subseteq Elements(entries)
       /\ Elements(Synthesized) \subseteq Elements(entries)
       /\ IsDuplicateFree(entries)
       /\ \A i \in 1..Len(entries) : entries[i] # <<>>
       /\ GroupsInOrder(entries)

\* C20 without "no empty entry"
C20_EnhancedPathExceptEmptyEntries ==
  built.op = "getEnhancedPath" =>
    LET entries == splitDelimiter(built.result)
    IN /\ built.result # <<>>
       /\ Elements(InheritedEntries) \subseteq Elements(entries)
       /\ Elements(Synthesized) \subseteq Elements(entries)
       /\ IsDuplicateFree(entries)
       /\ GroupsInOrder(entries)

\* the result has an empty entry exactly when the inherited PATH is unset or
\* empty, or begins or ends with a delimiter, or has two in a row
C20_EmptyEntryIffInherited ==
  built.op = "getEnhancedPath" =>
    ((\E i \in 1..Len(splitDelimiter(built.result)) : splitDelimiter(built.result)[i] = <<>>)
       <=> <<>> \in Elements(splitDelimiter(OrElse(penv, "PATH", <<>>))))

\* --- locale and terminal variables of a spawn

\* the env has a non-empty value for key k
HasValue(e, k) == k \in DOMAIN e /\ e[k] # <<>>

\* the env has TERM, the true-colour flag and a locale; an inherited LANG or
\* LC_ALL that is set (and that the caller does not override) is kept
TerminalAndLocale(pe, overrides, e) ==
  /\ HasValue(e, "TERM")
  /\ HasValue(e, "COLORTERM")
  /\ HasValue(e, "LANG")
  /\ HasValue(e, "LC_ALL")
  /\ \A k \in {"LANG", "LC_ALL"} :
       (HasValue(pe, k) /\ k \notin DOMAIN overrides) => e[k] = pe[k]

\* C21 (as claimed): the env of every pseudo-terminal spawn, of create and
\* of execInPty, has TERM, the true-colour flag and non-empty LANG and
\* LC_ALL; an inherited LANG or LC_ALL that is set is kept.
C21_SpawnEnvHasTerminalAndLocale ==
  built.op \in {"create", "execInPty"} =>
    TerminalAndLocale(penv, built.overrides, built.result)

\* C21, what holds: the env of execInPty has all of them, with the default
\* locale en_US.UTF-8 when none is inherited; the env of create always has
\* TERM and the true-colour flag, and has LANG or LC_ALL exactly when
\* process.env or options.env has it
C21_ExecForcesLocaleCreateDoesNot ==
  /\ built.op = "execInPty" =>
       /\ TerminalAndLocale(penv, built.overrides, built.result)
       /\ ~HasValue(penv, "LANG") => built.result["LANG"] = <<"en_US.UTF-8">>
       /\ (~HasValue(penv, "LANG") /\ ~HasValue(penv, "LC_ALL")) =>
            built.result["LC_ALL"] = <<"en_US.UTF-8">>
  /\ built.op = "create" =>
       /\ built.result["TERM"] = <<"xterm-256color">>
       /\ built.result["COLORTERM"] = <<"truecolor">>
       /\ \A k \in {"LANG", "LC_ALL"} :
            k \in DOMAIN built.result <=> (k \in DOMAIN penv \/ k \in DOMAIN built.overrides)

\* ======================================================================
\* killProcessTree on its own
\* ======================================================================

\* The process a target stands for, as the system sees it: whether it is
\* alive, whether it leads a process group, whether a child of it is alive.
OsStates == [alive : BOOLEAN, leader : BOOLEAN, child : BOOLEAN]

\* the process group -pid exists
GroupExists(o) == o.leader /\ (o.alive \/ o.child)

TreeGone(o) == ~o.alive /\ ~o.child

\* the targets killProcessTree is called with: a pid, the number 0, a handle
\* with a pid, a handle whose pid is absent
KillTargets == {PidTarget(100), PidTarget(0), HandleTarget(100), HandleTarget(0)}

KillSignals == {"SIGKILL", "SIGTERM"}

\* how the calls end on this system: process.kill throws when its target
\* does not exist (ESRCH); target.kill and spawnSync end as their libraries
\* make them end
OutcomesOn(o, taskkillOk, handleOk) ==
  [taskkill |-> taskkillOk, group |-> GroupExists(o), handle |-> handleOk, pid |-> o.alive]

\* what the requests that did not throw do to the process
RECURSIVE Deliver(_, _, _, _)
Deliver(o, reqs, oc, i) ==
  IF i > Len(reqs) THEN o
  ELSE LET via == reqs[i].via
           next == IF ~oc[via] THEN o
                   ELSE IF via \in {"taskkill", "group"}
                     THEN [o EXCEPT !.alive = FALSE, !.child = FALSE]
                   ELSE [o EXCEPT !.alive = FALSE]
       IN Deliver(next, reqs, oc, i + 1)

KCall(op, target, signal, oc, result, before) ==
  [op |-> op, target |-> target, signal |-> signal, oc |-> oc,
   reqs |-> result.reqs, raised |-> result.raised, before |-> before]

InitKill ==
  /\ env \in Envs
  /\ counter = 0
  /\ sessions = <<>>
  /\ procs = <<>>
  /\ returned = <<>>
  /\ last = Last("init", NoId, NoArg, FALSE, {})
  /\ calls = <<>>
  /\ xprocs = <<>>
  /\ hist = <<>>
  /\ penv = <<>>
  /\ built = <<>>
  /\ settings = <<>>
  /\ shcall = <<>>
  /\ submitted = <<>>
  /\ os \in OsStates
  /\ kcall = KCall("none", PidTarget(0), "SIGKILL", OutcomesOn(os, TRUE, TRUE), Nothing, os)
  /\ ManagersIdle

NotKill == <<env, counter, sessions, procs, returned, last, calls, xprocs, hist,
            penv, built, settings, shcall, submitted, Managers>>

\* some caller calls killProcessTree(target, signal)
KillTree(target, signal, taskkillOk, handleOk) ==
  /\ LET oc == OutcomesOn(os, taskkillOk, handleOk)
         result == killProcessTree(env.isWindows, target, signal, oc)
     IN /\ kcall' = KCall("kill", target, signal, oc, result, os)
        /\ os' = Deliver(os, result.reqs, oc, 1)
  /\ UNCHANGED NotKill

\* the process, or its child, ends on its own
OsExit(who) ==
  /\ os[who]
  /\ os' = [os EXCEPT ![who] = FALSE]
  /\ UNCHANGED <<kcall, NotKill>>

NextKill ==
  \/ \E target \in KillTargets, signal \in KillSignals, taskkillOk, handleOk \in BOOLEAN :
       KillTree(target, signal, taskkillOk, handleOk)
  \/ \E who \in {"alive", "child"} : OsExit(who)

SpecKill == InitKill /\ [][NextKill]_vars

\* ------------------------------------------ properties of killProcessTree

Vias(reqs) == [i \in 1..Len(reqs) |-> reqs[i].via]

\* C22: killProcessTree never raises to its caller, whatever the target and
\* whether or not the process or its group still exists; it changes no
\* session, manager or call state; called on a process tree that is already
\* gone it changes nothing at all.
C22_NeverRaisesNoStateChange ==
  [][kcall' # kcall =>
       /\ ~kcall'.raised
       /\ UNCHANGED <<counter, sessions, procs, returned, calls, xprocs>>
       /\ TreeGone(os) => os' = os]_vars

\* killProcessTree was called a second time on a handle whose process tree
\* was gone: the group signal and the kill of the handle both threw, and the
\* caller saw nothing
C22_Witness ==
  /\ kcall.op = "kill"
  /\ TreeGone(kcall.before)
  /\ kcall.target = HandleTarget(100)
  /\ Vias(kcall.reqs) = <<"group", "handle">>
  /\ ~kcall.oc.group
  /\ ~kcall.oc.handle
  /\ ~kcall.raised
  /\ os = kcall.before

\* the call was made on POSIX with a target that has a pid
PosixWithPid == kcall.op = "kill" /\ ~env.isWindows /\ kcall.target.pid # 0

\* C23 (as claimed): on POSIX killProcessTree signals the process group
\* first and, when that succeeds, sends nothing more; when it fails it
\* signals the handle, and when that fails too it sends a raw signal to the
\* bare process id.
C23_GroupThenHandleThenPid ==
  PosixWithPid =>
    /\ kcall.reqs # <<>>
    /\ kcall.reqs[1] = Req("group", kcall.signal)
    /\ kcall.oc.group => Len(kcall.reqs) = 1
    /\ (~kcall.oc.group /\ kcall.target.hasKill) =>
         /\ kcall.reqs[2] = Req("handle", kcall.signal)
         /\ ~kcall.oc.handle =>
              (Len(kcall.reqs) = 3 /\ kcall.reqs[3] = Req("pid", kcall.signal))
    /\ (~kcall.oc.group /\ ~kcall.target.hasKill) =>
         kcall.reqs = <<Req("group", kcall.signal), Req("pid", kcall.signal)>>

\* C23 (amended): on POSIX killProcessTree signals the process group first
\* and, when that succeeds, sends nothing more; when it fails it makes
\* exactly one more attempt: the kill of the handle when the target is a
\* handle, a raw signal to the bare process id when the target is a number.
\* There is no third attempt, whether or not the second one fails.
C23_GroupThenOneFallback ==
  PosixWithPid =>
    /\ kcall.reqs # <<>>
    /\ kcall.reqs[1] = Req("group", kcall.signal)
    /\ kcall.oc.group => Len(kcall.reqs) = 1
    /\ ~kcall.oc.group =>
         /\ Len(kcall.reqs) = 2
         /\ kcall.reqs[2] = Req(IF kcall.target.hasKill THEN "handle" ELSE "pid",
                                kcall.signal)

\* the group signal failed (the process leads no group) and the kill of the
\* handle terminated the process
C23_Witness ==
  /\ PosixWithPid
  /\ kcall.target.hasKill
  /\ kcall.before.alive
  /\ ~kcall.oc.group
  /\ kcall.oc.handle
  /\ Vias(kcall.reqs) = <<"group", "handle">>
  /\ ~os.alive

\* C24: when the target has no process id, killProcessTree calls the kill of
\* the handle with the requested signal if the target is a handle and does
\* nothing otherwise; it signals no process group and no bare id, runs no
\* taskkill, and does not raise.
C24_NoPidOnlyHandle ==
  (kcall.op = "kill" /\ kcall.target.pid = 0) =>
    /\ kcall.reqs = IF kcall.target.hasKill
                      THEN <<Req("handle", kcall.signal)>>
                      ELSE <<>>
    /\ ~kcall.raised

\* a handle without a pid was given, with SIGTERM; its kill was called and
\* threw, and the caller saw nothing
C24_Witness ==
  /\ kcall.op = "kill"
  /\ kcall.target = HandleTarget(0)
  /\ kcall.signal = "SIGTERM"
  /\ ~kcall.oc.handle
  /\ kcall.reqs = <<Req("handle", "SIGTERM")>>
  /\ ~kcall.raised

\* ======================================================================
\* the order of writes and resizes
\* ======================================================================

\* sessions created and items submitted in the input model
MaxIoSessions == 2

MaxSubmit == 3

\* what a caller submits: write(id, data) or resize(id, cols, rows)
IoItems == {<<"write", "x">>, <<"write", "y">>, <<"resize", 100, 30>>}

IoIds == {MkId(n) : n \in 1..MaxIoSessions}

RECURSIVE TotalSubmitted(_)
TotalSubmitted(S) ==
  IF S = {} THEN 0
  ELSE LET id == CHOOSE x \in S : TRUE
       IN Len(submitted[id]) + TotalSubmitted(S \ {id})

InitIo ==
  /\ env \in Envs
  /\ counter = 0
  /\ sessions = <<>>
  /\ procs = <<>>
  /\ returned = <<>>
  /\ last = Last("init", NoId, NoArg, FALSE, {})
  /\ calls = <<>>
  /\ xprocs = <<>>
  /\ hist = <<>>
  /\ penv = <<>>
  /\ built = <<>>
  /\ os = <<>>
  /\ kcall = <<>>
  /\ settings = <<>>
  /\ shcall = <<>>
  /\ submitted = [id \in IoIds |-> <<>>]
  /\ ManagersIdle

NotIo == <<env, calls, xprocs, hist, penv, built, os, kcall, settings, shcall, Managers>>

\* a create whose spawn succeeds
IoCreate ==
  /\ counter < MaxIoSessions
  /\ LET n == NextCounter(counter)
     IN /\ counter' = n
        /\ procs' = procs @@ (n :> NewProc(100, TRUE))
        /\ sessions' = MapCompact(Register(sessions, MkId(n), n, Home))
        /\ returned' = Append(returned, MkId(n))
        /\ last' = Last("create", MkId(n), NoArg, FALSE, {})
  /\ UNCHANGED <<submitted, NotIo>>

\* a caller submits a write or a resize for id, registered or not
IoSubmit(id, item) ==
  /\ TotalSubmitted(IoIds) < MaxSubmit
  /\ LET st == IF item[1] = "write"
                 THEN write(St, id, item[2])
                 ELSE resize(St, id, item[2], item[3])
     IN /\ sessions' = MapCompact(st.m)
        /\ procs' = st.p
        /\ last' = Last(item[1], id, item, st.raised, {})
  /\ submitted' = IF MapHas(sessions, id)
                    THEN [submitted EXCEPT ![id] = Append(@, item)]
                    ELSE submitted
  /\ UNCHANGED <<counter, returned, NotIo>>

IoDestroy(id) ==
  /\ LET st == destroy(St, id)
     IN /\ sessions' = MapCompact(st.m)
        /\ procs' = st.p
        /\ last' = Last("destroy", id, NoArg, st.raised, Removed(sessions, st.m))
  /\ UNCHANGED <<counter, returned, submitted, NotIo>>

IoExit(n) ==
  /\ procs[n].status = "running"
  /\ LET st == onExitListener(St, MkId(n), n)
     IN /\ sessions' = MapCompact(st.m)
        /\ procs' = st.p
        /\ last' = Last("exit", MkId(n), NoArg, st.raised, Removed(sessions, st.m))
  /\ UNCHANGED <<counter, returned, submitted, NotIo>>

NextIo ==
  \/ IoCreate
  \/ \E id \in IoIds, item \in IoItems : IoSubmit(id, item)
  \/ \E id \in IoIds : IoDestroy(id)
  \/ \E n \in DOMAIN procs : IoExit(n)

SpecIo == InitIo /\ [][NextIo]_vars

\* C25: the process of every session has received exactly the writes and
\* resizes that were submitted for that session while it was registered, in
\* the order of submission, none dropped and none twice; nothing submitted
\* for one session has reached the process of another.
C25_InputInSubmissionOrder ==
  \A n \in DOMAIN procs : procs[n].input = submitted[MkId(n)]

\* two sessions are registered; one has received a write, a resize and a
\* second write in that order
C25_Witness ==
  \E id \in IoIds :
    /\ Cardinality(MapKeys(sessions)) = 2
    /\ Registered(id)
    /\ submitted[id] = <<<<"write", "x">>, <<"resize", 100, 30>>, <<"write", "y">>>>
    /\ procs[HandleOf(id)].input = submitted[id]

\* ======================================================================
\* shell resolution on its own
\* ======================================================================

\* the executables that may be on disk, and the values of $SHELL: unset, a
\* shell outside the candidates, the minimal shell, a path that is never on
\* disk
DiskItems ==
  {Sh("/bin", "zsh"), Sh("/usr/bin", "bash"), Sh("/bin", "sh"), Sh("/opt", "fish")}

UserShells == {NoShell, Sh("/opt", "fish"), Sh("/bin", "sh"), Sh("/usr/local/bin", "zsh")}

ShellEnvs ==
  { [isWindows |-> w, disk |-> d, SHELL |-> s] :
      w \in BOOLEAN, d \in SUBSET DiskItems, s \in UserShells }

\* a detection that never looks at $SHELL
findLoginShellIgnoresUser(e) ==
  IF e.isWindows THEN [shell |-> Sh("", "cmd.exe"), args |-> <<"/c">>]
  ELSE LET shell == findFallbackShell(e.disk)
       IN [shell |-> shell, args |-> adjustArgsForShell(shell, <<"-i", "-l", "-c">>)]

findLoginShell(e) ==
  IF e.isWindows THEN [shell |-> Sh("", "cmd.exe"), args |-> <<"/c">>]
  ELSE IF e.SHELL # NoShell /\ existsSync(e.disk, e.SHELL)
    THEN [shell |-> e.SHELL, args |-> adjustArgsForShell(e.SHELL, <<"-i", "-l", "-c">>)]
  ELSE LET shell == findFallbackShell(e.disk)
       IN [shell |-> shell, args |-> adjustArgsForShell(shell, <<"-i", "-l", "-c">>)]

\* the persisted settings: no file or no shellConfig in it, or a shellConfig
NoSettings == [shellConfig |-> NoConfig]

SettingsValues ==
  { NoSettings,
    [shellConfig |-> [shellType |-> "zsh"]],
    [shellConfig |-> [shellType |-> "wsl"]] }

\* readSettings(): the settings as they are persisted now
readSettings(persisted) == persisted

\* ShellDetector.resolveShellForCommand: executable and arguments that run a
\* command in the shell of a configuration
resolveShellForCommand(e, cfg) ==
  IF cfg.shellType = "wsl"
    THEN [shell |-> Sh("", "wsl.exe"), execArgs |-> <<"-e", "sh", "-lc">>]
    ELSE [shell |-> Sh("/bin", cfg.shellType), execArgs |-> <<"-i", "-l", "-c">>]

\* what a module that kept its first answer would hold
NoMemo == [shell |-> NoShell, args |-> <<>>]

\* a getShellForCommand that answers from its first answer
getShellForCommandMemoized(e, persisted, memo) ==
  IF memo # NoMemo THEN memo
  ELSE LET shellConfig == readSettings(persisted).shellConfig
       IN IF shellConfig # NoConfig
            THEN LET r == resolveShellForCommand(e, shellConfig)
                 IN [shell |-> r.shell, args |-> r.execArgs]
            ELSE findLoginShell(e)

getShellForCommand(e, persisted, memo) ==
  LET shellConfig == readSettings(persisted).shellConfig
  IN IF shellConfig # NoConfig
       THEN LET r == resolveShellForCommand(e, shellConfig)
            IN [shell |-> r.shell, args |-> r.execArgs]
       ELSE findLoginShell(e)

\* shell.toLowerCase().includes('wsl')
IncludesWsl(shell) == shell.base \in {"wsl.exe", "WSL.EXE", "wsl"}

\* command.replace(/"/g, '\\"'), a command being a sequence of characters
RECURSIVE escapeQuotes(_)
escapeQuotes(command) ==
  IF command = <<>> THEN <<>>
  ELSE (IF Head(command) = "\"" THEN <<"\\", "\"">> ELSE <<Head(command)>>)
         \o escapeQuotes(Tail(command))

Commands == {<<"n">>, <<"e", "\"", "x", "\"">>}

\* execInPty, lines 75-89: the executable and the arguments of the spawn
shellArgsOf(desc, command) ==
  IF IncludesWsl(desc.shell)
    THEN <<"-e", "sh", "-lc",
           <<"exec \"$SHELL\" -ilc \"">> \o escapeQuotes(command) \o <<"\"">> >>
    ELSE desc.args \o <<command>>

\* the options create is given in this model: no shell, a shell that may be
\* missing, the minimal shell, a bare name; arguments none or the login flag
\* among others; with and without a shell configuration
ShellOptions ==
  { [shell |-> s, args |-> a, shellConfig |-> c] :
      s \in {NoShell, Sh("/opt", "fish"), Sh("/bin", "sh"), Sh("", "bash")},
      a \in {<<>>, <<"-i", "-l", "-x">>},
      c \in {NoConfig, [shellType |-> "zsh"]} }

\* create, lines 116-178: the shell it resolves and the spawns it attempts
\* when the first spawn returns (ok1) or throws
createAttempts(e, opts, ok1) ==
  LET requested == ResolveShell(e, opts)
      first == ShellBeforeSpawn(e, requested)
      retry == ~ok1 /\ RetriesSpawn(e, first)
  IN [requested |-> requested,
      missing |-> ShellMissing(e, requested.shell),
      attempts |-> IF retry THEN <<first, ShellOfRetry(e, first)>> ELSE <<first>>,
      firstOk |-> ok1]

\* ----------------------------------------------- actions of the shell model

ShCall(op, arg, at, result, memo) ==
  [op |-> op, arg |-> arg, at |-> at, result |-> result, memo |-> memo]

InitShell ==
  /\ env \in ShellEnvs
  /\ counter = 0
  /\ sessions = <<>>
  /\ procs = <<>>
  /\ returned = <<>>
  /\ last = Last("init", NoId, NoArg, FALSE, {})
  /\ calls = <<>>
  /\ xprocs = <<>>
  /\ hist = <<>>
  /\ penv = <<>>
  /\ built = <<>>
  /\ os = <<>>
  /\ kcall = <<>>
  /\ submitted = <<>>
  /\ settings \in SettingsValues
  /\ shcall = ShCall("none", NoArg, settings, NoMemo, NoMemo)
  /\ ManagersIdle

NotShell == <<env, counter, sessions, procs, returned, last, calls, xprocs, hist,
             penv, built, os, kcall, submitted, Managers>>

\* the user saves another shell configuration
ChangeSettings(s) ==
  /\ s # settings
  /\ settings' = s
  /\ UNCHANGED <<shcall, NotShell>>

\* findLoginShell is called
FindLoginShell ==
  /\ shcall' = ShCall("findLoginShell", NoArg, settings, findLoginShell(env), shcall.memo)
  /\ UNCHANGED <<settings, NotShell>>

\* getShellForCommand is called
GetShellForCommand ==
  /\ LET desc == getShellForCommand(env, settings, shcall.memo)
     IN shcall' = ShCall("getShellForCommand", NoArg, settings, desc,
                         IF shcall.memo = NoMemo THEN desc ELSE shcall.memo)
  /\ UNCHANGED <<settings, NotShell>>

\* execInPty(command) resolves its shell and builds the arguments of its spawn
ExecSpawn(command) ==
  /\ LET desc == getShellForCommand(env, settings, shcall.memo)
     IN shcall' = ShCall("execInPty", command, settings,
                         [shell |-> desc.shell, args |-> shellArgsOf(desc, command)],
                         IF shcall.memo = NoMemo THEN desc ELSE shcall.memo)
  /\ UNCHANGED <<settings, NotShell>>

\* create(options) resolves its shell and attempts its spawns
CreateSpawn(opts, ok1) ==
  /\ shcall' = ShCall("create", opts, settings, createAttempts(env, opts, ok1), shcall.memo)
  /\ UNCHANGED <<settings, NotShell>>

NextShell ==
  \/ \E s \in SettingsValues : ChangeSettings(s)
  \/ FindLoginShell
  \/ GetShellForCommand
  \/ \E command \in Commands : ExecSpawn(command)
  \/ \E opts \in ShellOptions, ok1 \in BOOLEAN : CreateSpawn(opts, ok1)

SpecShell == InitShell /\ [][NextShell]_vars

\* ----------------------------------------------------------- C26 and C27

FamilyOnDisk(b) == \E c \in CandidateSet : c.base = b /\ c \in env.disk

\* C26: findLoginShell always returns a shell; on POSIX it returns $SHELL
\* when that is set and on disk, otherwise the first candidate on disk in the
\* order zsh, bash, sh, and /bin/sh when no candidate is on disk.
C26_LoginShellDetection ==
  shcall.op = "findLoginShell" =>
    LET shell == shcall.result.shell
    IN /\ shell # NoShell
       /\ ~env.isWindows =>
            IF env.SHELL # NoShell /\ env.SHELL \in env.disk
              THEN shell = env.SHELL
              ELSE /\ IsFallbackChoice(shell)
                   /\ shell.base = IF FamilyOnDisk("zsh") THEN "zsh"
                                   ELSE IF FamilyOnDisk("bash") THEN "bash"
                                   ELSE "sh"
                   /\ (CandidateSet \cap env.disk = {} => shell = Sh("/bin", "sh"))

\* $SHELL names a shell that is not on disk, bash is and zsh is not
C26_Witness ==
  /\ shcall.op = "findLoginShell"
  /\ ~env.isWindows
  /\ env.SHELL # NoShell
  /\ env.SHELL \notin env.disk
  /\ ~FamilyOnDisk("zsh")
  /\ shcall.result.shell = Sh("/usr/bin", "bash")

WithoutLogin(args) == SelectSeq(args, LAMBDA a : a # "-l")

HasFlag(args, flag) == \E i \in 1..Len(args) : args[i] = flag

\* the arguments a shell is given when they were `given` before the shell
\* was chosen: without the login flag for the minimal shell
ArgsFitShell(shell, args, given) ==
  IF EndsWithSlashSh(shell)
    THEN ~HasFlag(args, "-l") /\ args = WithoutLogin(given)
    ELSE args = given

\* C27: the minimal shell is never given '-l' and keeps every other argument
\* in order, and every other login shell of findLoginShell is given both the
\* interactive and the login flag; in findLoginShell, in the substitution
\* before the spawn and in the retry after a failed spawn of create.
C27_LoginFlagDroppedForSh ==
  /\ shcall.op = "findLoginShell" /\ ~env.isWindows =>
       /\ ArgsFitShell(shcall.result.shell, shcall.result.args, <<"-i", "-l", "-c">>)
       /\ ~EndsWithSlashSh(shcall.result.shell) =>
            HasFlag(shcall.result.args, "-i") /\ HasFlag(shcall.result.args, "-l")
  /\ shcall.op = "create" =>
       LET r == shcall.result
       IN /\ r.missing =>
               ArgsFitShell(r.attempts[1].shell, r.attempts[1].args, r.requested.args)
          /\ Len(r.attempts) = 2 =>
               ArgsFitShell(r.attempts[2].shell, r.attempts[2].args, r.attempts[1].args)

\* a shell given '-l' failed to spawn and the retry is the minimal shell
C27_Witness ==
  /\ shcall.op = "create"
  /\ Len(shcall.result.attempts) = 2
  /\ HasFlag(shcall.result.attempts[1].args, "-l")
  /\ EndsWithSlashSh(shcall.result.attempts[2].shell)
  /\ shcall.result.attempts[2].args = <<"-i", "-x">>

\* ------------------------------------------------------------------ C28

\* the descriptor of the configuration persisted when the call was made
DescriptorOf(persisted) ==
  IF persisted.shellConfig # NoConfig
    THEN [shell |-> resolveShellForCommand(env, persisted.shellConfig).shell,
          args |-> resolveShellForCommand(env, persisted.shellConfig).execArgs]
    ELSE findLoginShell(env)

\* C28: every getShellForCommand and every execInPty uses the shell and the
\* arguments of the configuration persisted at the time of that call,
\* whatever an earlier call returned.
C28_ShellRecomputedPerCall ==
  /\ shcall.op = "getShellForCommand" => shcall.result = DescriptorOf(shcall.at)
  /\ shcall.op = "execInPty" =>
       /\ shcall.result.shell = DescriptorOf(shcall.at).shell
       /\ \/ shcall.result.args = DescriptorOf(shcall.at).args \o <<shcall.arg>>
          \/ /\ IncludesWsl(shcall.result.shell)
             /\ Len(shcall.result.args) = 4
             /\ SubSeq(shcall.result.args, 1, 3) = <<"-e", "sh", "-lc">>

\* an earlier call returned another descriptor than this call spawns with
C28_Witness ==
  /\ shcall.op = "execInPty"
  /\ shcall.memo # NoMemo
  /\ shcall.memo.shell # shcall.result.shell
  /\ shcall.at.shellConfig # NoConfig
  /\ ~IncludesWsl(shcall.result.shell)

\* ------------------------------------------------------------------ C29

\* explicit shell > shell configuration > detection, stated on the options
Preferred(opts) ==
  IF opts.shell # NoShell THEN [shell |-> opts.shell, args |-> opts.args]
  ELSE IF opts.shellConfig # NoConfig THEN resolveShellConfig(env, opts.shellConfig)
  ELSE [shell |-> detectShell(env), args |-> opts.args]

\* C29 as stated: the shell create spawns is the explicit shell with exactly
\* the supplied arguments, else what the shell configuration resolves to, else
\* the detected shell.
C29_SpawnsPreferredShell ==
  shcall.op = "create" => shcall.result.attempts[1] = Preferred(shcall.arg)

\* C29: create resolves the explicit shell with exactly the supplied
\* arguments, else what the shell configuration resolves to, else the detected
\* shell, and spawns that unless it is a path missing on POSIX, when it
\* spawns the fallback shell with the arguments adjusted to it.
C29_PreferredUnlessMissing ==
  shcall.op = "create" =>
    LET r == shcall.result
    IN /\ r.requested = Preferred(shcall.arg)
       /\ ~r.missing => r.attempts[1] = r.requested
       /\ r.missing =>
            /\ r.attempts[1].shell = findFallbackShell(env.disk)
            /\ ArgsFitShell(r.attempts[1].shell, r.attempts[1].args, r.requested.args)

\* an explicit shell given together with a shell configuration is spawned
C29_Witness ==
  /\ shcall.op = "create"
  /\ shcall.arg.shell # NoShell
  /\ shcall.arg.shellConfig # NoConfig
  /\ shcall.arg.args = <<>>
  /\ shcall.result.attempts[1] = [shell |-> shcall.arg.shell, args |-> <<>>]

\* ------------------------------------------------------------------ C30

\* the timer of a call that is armed fires: setTimeout runs its callback
\* unless clearTimeout was called first
TimerFires == \A c \in CallIds : WF_vars(\E oc \in KillOutcomes : ExecTimeout(c, oc))

SpecExecFair == InitExec /\ [][NextExec]_vars /\ TimerFires

IsSettled(c) == Settlements(c) # <<>>

\* C30: every execInPty call that was made is eventually resolved or
\* rejected, whatever its process does, provided its timer fires.
C30_EveryCallSettles ==
  \A c \in CallIds : calls[c].started ~> IsSettled(c)

\* a call whose process neither wrote nor exited was settled by its timer
C30_Witness ==
  \E c \in CallIds :
    /\ IsSettled(c)
    /\ Len(hist[c]) = 2
    /\ hist[c][1].ev = "start"
    /\ hist[c][2].ev = "timeout"
    /\ calls[c].output = <<>>

\* ------------------------------------------------------------------ C31

SpawnThrew(c) == hist[c] # <<>> /\ hist[c][1].ev = "start" /\ ~hist[c][1].arg[2]

\* C31: when pty.spawn throws inside execInPty the call is rejected with that
\* error exactly once, its timer is cancelled, no termination is ever
\* requested for it, and the timer callback would neither kill nor settle.
C31_SpawnFailureRejectsOnce ==
  \A c \in CallIds :
    SpawnThrew(c) =>
      /\ calls[c].log = <<Reject(<<"spawn failed">>)>>
      /\ calls[c].timer = "cleared"
      /\ c \notin DOMAIN xprocs
      /\ \A oc \in KillOutcomes :
           LET w == onTimeout(W, c, env.isWindows, oc)
           IN w.c[c].log = calls[c].log /\ w.p = xprocs

\* the spawn of one call threw while the other call timed out and was killed
C31_Witness ==
  \E c, d \in CallIds :
    /\ SpawnThrew(c)
    /\ calls[c].killOnTimeout
    /\ d # c
    /\ TimedOutFirst(d)
    /\ Kills(d) # <<>>

\* ------------------------------------------------------------------ C32

\* C32: a create that raises leaves the registry as it was, spawns no process
\* and wires no callback, returns no id, and leaves every other session and
\* process as it was.
C32_FailedCreateChangesNothing ==
  [][(counter' # counter /\ last'.raised) =>
       /\ sessions' = sessions
       /\ procs' = procs
       /\ returned' = returned]_vars

\* a create failed after both of its spawns threw while a session was registered
C32_Witness ==
  /\ last.op = "create"
  /\ last.raised
  /\ Len(last.arg.attempts) = 2
  /\ MapKeys(sessions) # {}
  /\ HandleOf(last.id) \notin DOMAIN procs

\* ======================================================================
\* HapiServerManager: the installation checks and their caches
\* ======================================================================

\* bounds: check calls made, and steps of the clock
MaxChecks == 4

MaxTicks == 3

\* private readonly CACHE_TTL = 300000
CACHE_TTL == 300000

\* Date.now() when the manager is constructed, and what the clock advances by
\* in one step of the model
StartTime == 1000000

TickMs == 150000

Tools == {"hapi", "happy"}

\* a status field that is null, and the statuses a check stores
NullStatus == [set |-> FALSE, installed |-> FALSE, version |-> ""]

Installed(version) == [set |-> TRUE, installed |-> TRUE, version |-> version]

NotInstalled == [set |-> TRUE, installed |-> FALSE, version |-> ""]

\* globalStatus / happyGlobalStatus with its timestamp; successAt is the time
\* the last probe that found the tool installed returned (0: none yet)
EmptyCache == [status |-> NullStatus, timestamp |-> 0, successAt |-> 0]

\* how a probe ends.  hapi (execInLoginShell): stdout with a version, stdout
\* without one, an error that carries stdout with a version, an error.
\* happy (execInPty): output with a version, output that names happy, other
\* output, a rejection.
ProbeOutcomes(tool) ==
  IF tool = "hapi" THEN {"version", "noversion", "errversion", "error"}
  ELSE {"version", "name", "other", "error"}

\* a cache test that does not look at forceRefresh
cacheValidIgnoresForce(c, forceRefresh, now) ==
  c.status.set /\ now - c.timestamp < CACHE_TTL

\* lines 75-79 and 122-126: the stored result is returned
cacheValid(c, forceRefresh, now) ==
  ~forceRefresh /\ c.status.set /\ now - c.timestamp < CACHE_TTL

\* a check that stamps the cache whatever the probe found
checkGlobalInstallStampsAlways(c, outcome, now) ==
  IF outcome \in {"version", "errversion"}
    THEN [c EXCEPT !.status = Installed("1.2.3"), !.timestamp = now]
  ELSE IF outcome = "noversion"
    THEN [c EXCEPT !.status = Installed(""), !.timestamp = now]
  ELSE [c EXCEPT !.status = NotInstalled, !.timestamp = now]

\* checkGlobalInstall, lines 83-112, from the end of the probe on
checkGlobalInstall(c, outcome, now) ==
  IF outcome = "version"
    THEN [c EXCEPT !.status = Installed("1.2.3"), !.timestamp = now]
  ELSE IF outcome = "noversion"
    THEN [c EXCEPT !.status = Installed(""), !.timestamp = now]
  ELSE IF outcome = "errversion"
    THEN [c EXCEPT !.status = Installed("1.2.3"), !.timestamp = now]
  ELSE [c EXCEPT !.status = NotInstalled]

\* checkHappyGlobalInstall, lines 130-154, from the end of the probe on
checkHappyGlobalInstall(c, outcome, now) ==
  IF outcome = "version"
    THEN [c EXCEPT !.status = Installed("1.2.3"), !.timestamp = now]
  ELSE IF outcome = "name"
    THEN [c EXCEPT !.status = Installed(""), !.timestamp = now]
  ELSE [c EXCEPT !.status = NotInstalled]

CheckEvent(op, tool, forceRefresh, at, result, stored, successAt) ==
  [op |-> op, tool |-> tool, forceRefresh |-> forceRefresh, at |-> at,
   result |-> result, stored |-> stored, successAt |-> successAt]

\* the terminal services while only a manager runs
TerminalIdle ==
  /\ counter = 0
  /\ sessions = <<>>
  /\ procs = <<>>
  /\ returned = <<>>
  /\ last = Last("init", NoId, NoArg, FALSE, {})
  /\ calls = <<>>
  /\ xprocs = <<>>
  /\ hist = <<>>
  /\ penv = <<>>
  /\ built = <<>>
  /\ os = <<>>
  /\ kcall = <<>>
  /\ settings = <<>>
  /\ shcall = <<>>
  /\ submitted = <<>>

Terminal == <<counter, sessions, procs, returned, last, calls, xprocs, hist,
             penv, built, os, kcall, settings, shcall, submitted>>

InitInstall ==
  /\ env \in Envs
  /\ TerminalIdle
  /\ install = [now |-> StartTime,
                cache |-> [t \in Tools |-> EmptyCache],
                pending |-> <<>>,
                checks |-> 0,
                last |-> CheckEvent("none", "hapi", FALSE, 0, NullStatus, NullStatus, 0)]
  /\ hapi = <<>>
  /\ tunnel = <<>>
  /\ plugin = <<>>
  /\ watch = <<>>

NotInstall == <<env, Terminal, hapi, tunnel, plugin, watch>>

\* time passes
Tick ==
  /\ install.now < StartTime + MaxTicks * TickMs
  /\ install' = [install EXCEPT !.now = @ + TickMs]
  /\ UNCHANGED NotInstall

\* a check is called: it returns the stored result or starts its probe
CheckBegin(tool, forceRefresh) ==
  /\ install.checks < MaxChecks
  /\ LET c == install.cache[tool]
         hit == cacheValid(c, forceRefresh, install.now)
     IN install' =
          [install EXCEPT
             !.checks = @ + 1,
             !.pending = IF hit THEN @ ELSE Append(@, tool),
             !.last = CheckEvent(IF hit THEN "hit" ELSE "probe", tool, forceRefresh,
                                 install.now, IF hit THEN c.status ELSE NullStatus,
                                 c.status, c.successAt)]
  /\ UNCHANGED NotInstall

\* the probe of a check in flight ends and the check returns
CheckEnd(i, outcome) ==
  /\ i \in 1..Len(install.pending)
  /\ outcome \in ProbeOutcomes(install.pending[i])
  /\ LET tool == install.pending[i]
         c == install.cache[tool]
         after == IF tool = "hapi" THEN checkGlobalInstall(c, outcome, install.now)
                  ELSE checkHappyGlobalInstall(c, outcome, install.now)
         done == [after EXCEPT !.successAt = IF after.status.installed
                                               THEN install.now ELSE @]
     IN install' =
          [install EXCEPT
             !.cache[tool] = done,
             !.pending = SubSeq(@, 1, i - 1) \o SubSeq(@, i + 1, Len(@)),
             !.last = CheckEvent("done", tool, FALSE, install.now, done.status,
                                 c.status, c.successAt)]
  /\ UNCHANGED NotInstall

NextInstall ==
  \/ Tick
  \/ \E tool \in Tools, forceRefresh \in BOOLEAN : CheckBegin(tool, forceRefresh)
  \/ \E i \in 1..MaxChecks, outcome \in {"version", "noversion", "errversion", "name", "other", "error"} :
       CheckEnd(i, outcome)

SpecInstall == InitInstall /\ [][NextInstall]_vars

\* --------------------------------------------------------- C33 and C34

\* C33 (as claimed): a check never returns a stored 'not installed' result;
\* after a failed probe the next call probes again.
C33_FailureNeverServedFromCache ==
  install.last.op = "hit" => install.last.result.installed

FreshSuccess(e) == e.successAt # 0 /\ e.at - e.successAt < CACHE_TTL

\* C34: within CACHE_TTL of a probe that found the tool installed, a check
\* without forceRefresh returns the stored status and runs no probe; with
\* forceRefresh, or once CACHE_TTL has passed, it runs a probe; and the
\* timestamp of a cache is always the time of the last such probe.
C34_SuccessCachedForTtl ==
  /\ \A t \in Tools : install.cache[t].timestamp = install.cache[t].successAt
  /\ install.last.op \in {"hit", "probe"} =>
       LET e == install.last
       IN IF ~e.forceRefresh /\ FreshSuccess(e)
            THEN e.op = "hit" /\ e.result = e.stored
            ELSE e.op = "probe"

\* a check without forceRefresh was answered from the cache one step of the
\* clock after the probe, and an earlier check in this run was forced
C34_Witness ==
  /\ install.last.op = "hit"
  /\ install.last.tool = "hapi"
  /\ install.last.at = install.last.successAt + TickMs
  /\ install.last.result = Installed("1.2.3")
  /\ install.checks >= 3

\* ======================================================================
\* HapiServerManager: the server process
\* ======================================================================

\* bounds: processes spawned, start calls, stop calls and output events
MaxServers == 2

MaxStarts == 2

MaxStops == 2

MaxOutput == 1

\* this.status: running and ready (undefined reads as false)
HapiStatus(running, ready) == [running |-> running, ready |-> ready]

\* a spawned server process as the system sees it: alive until it exits, the
\* termination requests it was sent, and the events it has emitted
Server == [alive |-> TRUE, reqs |-> <<>>, exited |-> FALSE, errored |-> FALSE]

\* every request killProcessTree makes in this model is carried out
Carried == [taskkill |-> TRUE, group |-> TRUE, handle |-> TRUE, pid |-> TRUE]

PidOf(h) == 100 + h

\* killProcessTree(proc, signal) on the server process h
SignalServer(m, isWindows, h, signal) ==
  [m EXCEPT !.servers[h].reqs =
     @ \o killProcessTree(isWindows, HandleTarget(PidOf(h)), signal, Carried).reqs]

\* the same, called by the stop in flight i
StopSignals(m, isWindows, i, signal) ==
  [SignalServer(m, isWindows, m.stops[i].proc, signal) EXCEPT !.stops[i].sent =
     @ \o killProcessTree(isWindows, HandleTarget(PidOf(m.stops[i].proc)), signal, Carried).reqs]

\* start, lines 165-168 and the await of line 189
startBeforeAwait(m) ==
  IF m.process # 0 THEN m ELSE [m EXCEPT !.starting = @ + 1]

\* start, lines 193-258: spawn, status and handlers, or the catch block
startAfterAwait(m, spawnOk) ==
  IF spawnOk
    THEN LET h == Len(m.servers) + 1
         IN [m EXCEPT !.starting = @ - 1,
                      !.servers = Append(@, Server),
                      !.process = h,
                      !.ready = FALSE,
                      !.status = HapiStatus(TRUE, FALSE)]
    ELSE [m EXCEPT !.starting = @ - 1, !.status = HapiStatus(FALSE, FALSE)]

\* the stdout and stderr listeners, lines 209-231
onOutput(m, matches) ==
  IF ~m.ready /\ matches
    THEN [m EXCEPT !.ready = TRUE, !.status = [@ EXCEPT !.ready = TRUE]]
    ELSE m

\* the 'error' listener, lines 233-239
onError(m) ==
  [m EXCEPT !.ready = FALSE, !.status = HapiStatus(FALSE, FALSE), !.process = 0]

\* the 'exit' listener of start, lines 241-247
onServerExit(m) ==
  [m EXCEPT !.ready = FALSE, !.status = HapiStatus(FALSE, FALSE), !.process = 0]

\* a stop call in flight: the process it captured, its escalation timer,
\* whether its promise is resolved and with what, and whether restart waits
StopCall(proc, restart) ==
  [proc |-> proc, timer |-> "pending", resolved |-> FALSE, restart |-> restart,
   sent |-> <<>>, result |-> HapiStatus(FALSE, FALSE), tracked |-> 0]

\* the once('exit') listener of a stop, lines 273-279
onStopExit(m, i) ==
  LET cleared == [m EXCEPT !.stops[i].timer = clearTimeout(@),
                           !.process = 0,
                           !.status = HapiStatus(FALSE, FALSE)]
  IN [cleared EXCEPT !.stops[i].resolved = TRUE,
                     !.stops[i].result = cleared.status,
                     !.stops[i].tracked = cleared.process]

\* a stop that signals with SIGKILL at once
stopKillsAtOnce(m, isWindows, restart) ==
  IF m.process = 0 THEN m
  ELSE StopSignals([m EXCEPT !.stops = Append(@, StopCall(m.process, restart))],
                   isWindows, Len(m.stops) + 1, "SIGKILL")

\* stop, lines 261-283
stop(m, isWindows, restart) ==
  IF m.process = 0 THEN m
  ELSE StopSignals([m EXCEPT !.stops = Append(@, StopCall(m.process, restart))],
                   isWindows, Len(m.stops) + 1, "SIGTERM")

\* the callback of the escalation timer, lines 269-271
onStopTimeout(m, isWindows, i) ==
  StopSignals([m EXCEPT !.stops[i].timer = "fired"], isWindows, i, "SIGKILL")

\* cleanup, lines 294-299
cleanup(m, isWindows) ==
  IF m.process # 0
    THEN [SignalServer(m, isWindows, m.process, "SIGKILL") EXCEPT !.process = 0]
    ELSE m

\* the listeners of 'exit' on server h in the order they were added: the
\* one of start, then the ones of the stops that wait for h; a restart whose
\* stop is resolved goes on with start
RECURSIVE StopsSeeExit(_, _, _)
StopsSeeExit(m, h, i) ==
  IF i > Len(m.stops) THEN m
  ELSE IF m.stops[i].proc = h /\ ~m.stops[i].resolved
    THEN StopsSeeExit(onStopExit(m, i), h, i + 1)
    ELSE StopsSeeExit(m, h, i + 1)

RECURSIVE RestartsGoOn(_, _, _)
RestartsGoOn(m, before, i) ==
  IF i > Len(m.stops) THEN m
  ELSE IF m.stops[i].restart /\ m.stops[i].resolved /\ ~before.stops[i].resolved
    THEN RestartsGoOn(startBeforeAwait(m), before, i + 1)
    ELSE RestartsGoOn(m, before, i + 1)

HapiEvent(op, arg, result) == [op |-> op, arg |-> arg, result |-> result]

InitHapi ==
  /\ env \in Envs
  /\ TerminalIdle
  /\ install = <<>>
  /\ hapi = [process |-> 0, status |-> HapiStatus(FALSE, FALSE), ready |-> FALSE,
             servers |-> <<>>, starting |-> 0, stops |-> <<>>,
             started |-> 0, outputs |-> 0,
             last |-> HapiEvent("none", 0, HapiStatus(FALSE, FALSE))]
  /\ tunnel = <<>>
  /\ plugin = <<>>
  /\ watch = <<>>

NotHapi == <<env, Terminal, install, tunnel, plugin, watch>>

\* start(config) is called and returns the status or suspends
HapiStart ==
  /\ hapi.started < MaxStarts
  /\ LET m == startBeforeAwait(hapi)
     IN hapi' = [m EXCEPT !.started = @ + 1,
                          !.last = HapiEvent("start", hapi.process, m.status)]
  /\ UNCHANGED NotHapi

\* a suspended start goes on: spawn returns a process or throws
HapiStartResume(spawnOk) ==
  /\ hapi.starting > 0
  /\ Len(hapi.servers) < MaxServers
  /\ LET m == startAfterAwait(hapi, spawnOk)
     IN hapi' = [m EXCEPT !.last = HapiEvent("spawn", spawnOk, m.status)]
  /\ UNCHANGED NotHapi

\* stop() or restart(config) is called
HapiStop(restart) ==
  /\ Len(hapi.stops) < MaxStops
  /\ restart => hapi.started < MaxStarts
  /\ LET m == stop(hapi, env.isWindows, restart)
         n == IF restart /\ hapi.process = 0 THEN startBeforeAwait(m) ELSE m
     IN hapi' = [n EXCEPT !.started = IF restart THEN @ + 1 ELSE @,
                          !.last = HapiEvent(IF restart THEN "restart" ELSE "stop",
                                             hapi.process, m.status)]
  /\ UNCHANGED NotHapi

\* the escalation timer of a stop fires
HapiStopTimeout(i) ==
  /\ i \in 1..Len(hapi.stops)
  /\ hapi.stops[i].timer = "pending"
  /\ hapi' = [onStopTimeout(hapi, env.isWindows, i)
                EXCEPT !.last = HapiEvent("timeout", i, hapi.status)]
  /\ UNCHANGED NotHapi

\* cleanup() is called
HapiCleanup ==
  /\ hapi.process # 0
  /\ hapi' = [cleanup(hapi, env.isWindows)
                EXCEPT !.last = HapiEvent("cleanup", hapi.process, hapi.status)]
  /\ UNCHANGED NotHapi

\* server h writes to stdout or stderr; the streams may deliver after 'exit'
HapiOutput(h, matches) ==
  /\ h \in 1..Len(hapi.servers)
  /\ hapi.outputs < MaxOutput
  /\ hapi' = [onOutput(hapi, matches)
                EXCEPT !.outputs = @ + 1, !.last = HapiEvent("output", h, hapi.status)]
  /\ UNCHANGED NotHapi

\* server h emits 'error'
HapiError(h) ==
  /\ h \in 1..Len(hapi.servers)
  /\ ~hapi.servers[h].errored
  /\ ~hapi.servers[h].exited
  /\ hapi' = [onError(hapi) EXCEPT !.servers[h].errored = TRUE,
                                   !.last = HapiEvent("error", h, hapi.status)]
  /\ UNCHANGED NotHapi

\* server h exits, on its own or after a signal, and emits 'exit'
HapiExit(h) ==
  /\ h \in 1..Len(hapi.servers)
  /\ hapi.servers[h].alive
  /\ LET gone == [hapi EXCEPT !.servers[h].alive = FALSE, !.servers[h].exited = TRUE]
         seen == StopsSeeExit(onServerExit(gone), h, 1)
     IN hapi' = [RestartsGoOn(seen, hapi, 1)
                   EXCEPT !.last = HapiEvent("exit", h, seen.status)]
  /\ UNCHANGED NotHapi

NextHapi ==
  \/ HapiStart
  \/ \E spawnOk \in BOOLEAN : HapiStartResume(spawnOk)
  \/ \E restart \in BOOLEAN : HapiStop(restart)
  \/ \E i \in 1..MaxStops : HapiStopTimeout(i)
  \/ HapiCleanup
  \/ \E h \in 1..MaxServers, matches \in BOOLEAN : HapiOutput(h, matches)
  \/ \E h \in 1..MaxServers : HapiError(h)
  \/ \E h \in 1..MaxServers : HapiExit(h)

SpecHapi == InitHapi /\ [][NextHapi]_vars

\* ------------------------------------------------------- C35 and C37

\* the servers that run, that have emitted no 'error' and that nobody has
\* asked to terminate
Running ==
  {h \in 1..Len(hapi.servers) :
     hapi.servers[h].alive /\ ~hapi.servers[h].errored /\ hapi.servers[h].reqs = <<>>}

\* C35 (as claimed): at most one server process runs at a time and the
\* manager holds the reference of every server that runs, for every
\* interleaving of start calls; a start that finds a process tracked returns
\* the status without spawning.
C35_AtMostOneServerTracked ==
  /\ Cardinality(Running) <= 1
  /\ \A h \in Running : hapi.process = h
  /\ (hapi.last.op = "start" /\ hapi.last.arg # 0) => hapi.last.result = hapi.status

\* C37 (as claimed): status.running is true exactly when a process is
\* tracked, and status.ready only when status.running.
C37_StatusMatchesProcess ==
  /\ hapi.status.running <=> hapi.process # 0
  /\ hapi.status.ready => hapi.status.running

\* ------------------------------------------------------------------ C36

\* a SIGKILL, or the forced taskkill of Windows, has been sent to server h
ForcedToExit(h) ==
  /\ h \in 1..Len(hapi.servers)
  /\ \E k \in 1..Len(hapi.servers[h].reqs) :
       hapi.servers[h].reqs[k].signal = "SIGKILL" \/ hapi.servers[h].reqs[k].via = "taskkill"

\* the escalation timer of a stop fires unless it is cleared, and a process
\* that was sent SIGKILL exits
SpecHapiFair ==
  /\ InitHapi
  /\ [][NextHapi]_vars
  /\ \A i \in 1..MaxStops : WF_vars(HapiStopTimeout(i))
  /\ \A h \in 1..MaxServers : WF_vars(ForcedToExit(h) /\ HapiExit(h))

\* what a stop does besides signalling: it resolves exactly when its process
\* has emitted 'exit', then with running = false and nothing tracked and its
\* timer no longer pending, and it has signalled a second time exactly when
\* its timer has fired
StopWaitsForExit(s) ==
  /\ s.resolved <=> hapi.servers[s.proc].exited
  /\ s.resolved =>
       /\ ~hapi.servers[s.proc].alive
       /\ s.result = HapiStatus(FALSE, FALSE)
       /\ s.tracked = 0
       /\ s.timer # "pending"
  /\ Len(s.sent) = (IF s.timer = "fired" THEN 2 ELSE 1)

\* a stop that finds no process tracked signals nothing and waits for nothing
IdleStopDoesNothing ==
  [][(hapi.process = 0 /\ hapi'.last.op = "stop" /\ hapi'.last # hapi.last) =>
       /\ hapi'.servers = hapi.servers
       /\ hapi'.stops = hapi.stops
       /\ hapi'.last.result = hapi.status]_vars

EveryStopResolves ==
  \A i \in 1..MaxStops :
    (Len(hapi.stops) >= i) ~> (Len(hapi.stops) >= i /\ hapi.stops[i].resolved)

\* C36 (as claimed): every stop first sends SIGTERM to the process tree and
\* sends SIGKILL only when its timer has fired, and resolves as described.
C36_SigtermThenSigkill ==
  \A i \in 1..Len(hapi.stops) :
    LET s == hapi.stops[i]
    IN /\ StopWaitsForExit(s)
       /\ s.sent[1].signal = "SIGTERM"
       /\ s.sent[1].via \in {"group", "taskkill"}
       /\ Len(s.sent) = 2 => s.sent[2].signal = "SIGKILL"

\* C36: every stop first calls killProcessTree with SIGTERM and calls it with
\* SIGKILL only when its timer has fired after 5 seconds without an exit; on
\* POSIX these signal the process group, on Windows each is a forced taskkill
\* of the tree.  A stop resolves only after the exit, with running = false
\* and no tracked process, its timer cancelled; a stop without a tracked
\* process signals nothing; and every stop eventually resolves.
C36_StopTerminatesThenResolves ==
  /\ [](\A i \in 1..Len(hapi.stops) :
          LET s == hapi.stops[i]
              Asked(signal) == IF env.isWindows THEN Req("taskkill", "/t /f")
                               ELSE Req("group", signal)
          IN /\ StopWaitsForExit(s)
             /\ s.sent[1] = Asked("SIGTERM")
             /\ Len(s.sent) = 2 => s.sent[2] = Asked("SIGKILL"))
  /\ IdleStopDoesNothing
  /\ EveryStopResolves

\* on POSIX a stop has resolved after its timer fired and SIGKILL was sent
C36_Witness ==
  \E i \in 1..Len(hapi.stops) :
    /\ ~env.isWindows
    /\ hapi.stops[i].resolved
    /\ hapi.stops[i].timer = "fired"
    /\ hapi.stops[i].sent = <<Req("group", "SIGTERM"), Req("group", "SIGKILL")>>

\* ======================================================================
\* CloudflaredManager: the tunnel
\* ======================================================================

\* bounds: tunnels created, start calls and stop calls
MaxTunnels == 2

MaxTunnelStarts == 3

MaxTunnelStops == 2

\* a tunnel as the system sees it: whether its process has a pid and still
\* runs, the termination requests it was sent, the events it has emitted
NewTunnel(hasPid) ==
  [alive |-> TRUE, hasPid |-> hasPid, reqs |-> <<>>, exited |-> FALSE, errored |-> FALSE]

\* how a start goes on after `await this.checkInstalled()`
StartOutcomes == {"created", "notInstalled", "invalid", "throws"}

\* an 'exit' or 'error' listener that only acts for the tunnel it was added to
onTunnelGoneIfCurrent(m, h) ==
  IF m.tunnel = h THEN [m EXCEPT !.running = FALSE, !.tunnel = 0] ELSE m

\* the 'exit' and the 'error' listener, lines 158-180: whichever tunnel h
\* emitted the event
onTunnelGone(m, h) ==
  [m EXCEPT !.running = FALSE, !.tunnel = 0]

\* the 'url' and the 'connected' listener, lines 120-144
onTunnelUrl(m, h) ==
  [m EXCEPT !.running = TRUE]

\* start, lines 79-84
tunnelStartBeforeAwait(m) ==
  IF m.tunnel # 0 THEN m ELSE [m EXCEPT !.starting = @ + 1]

\* start, lines 85-200
tunnelStartAfterAwait(m, outcome, hasPid) ==
  IF outcome = "created"
    THEN [m EXCEPT !.starting = @ - 1,
                   !.tunnels = Append(@, NewTunnel(hasPid)),
                   !.tunnel = Len(m.tunnels) + 1,
                   !.running = TRUE]
    ELSE [m EXCEPT !.starting = @ - 1, !.running = FALSE]

\* killTunnel, lines 224-235
killTunnel(m, isWindows) ==
  IF m.tunnel = 0 THEN m
  ELSE [m EXCEPT
          !.tunnels[m.tunnel].reqs =
             @ \o (IF m.tunnels[m.tunnel].hasPid
                     THEN killProcessTree(isWindows, PidTarget(PidOf(m.tunnel)),
                                          "SIGKILL", Carried).reqs
                     ELSE <<Req("stop", "")>>),
          !.tunnel = 0]

\* stop, lines 203-206, and lines 207-213 after the await
tunnelStopBeforeAwait(m, isWindows) ==
  [killTunnel(m, isWindows) EXCEPT !.stopping = @ + 1]

tunnelStopAfterAwait(m) ==
  [m EXCEPT !.stopping = @ - 1, !.running = FALSE]

\* what the last step was, and the tunnel and the status before it
TunnelEvent(op, arg, m) == [op |-> op, arg |-> arg, tunnel |-> m.tunnel, running |-> m.running]

InitTunnel ==
  /\ env \in Envs
  /\ TerminalIdle
  /\ install = <<>>
  /\ hapi = <<>>
  /\ tunnel = [tunnel |-> 0, running |-> FALSE, tunnels |-> <<>>,
               starting |-> 0, stopping |-> 0, started |-> 0, stopped |-> 0,
               last |-> [op |-> "none", arg |-> 0, tunnel |-> 0, running |-> FALSE]]
  /\ plugin = <<>>
  /\ watch = <<>>

NotTunnel == <<env, Terminal, install, hapi, plugin, watch>>

TunnelStart ==
  /\ tunnel.started < MaxTunnelStarts
  /\ tunnel' = [tunnelStartBeforeAwait(tunnel)
                  EXCEPT !.started = @ + 1, !.last = TunnelEvent("start", 0, tunnel)]
  /\ UNCHANGED NotTunnel

TunnelStartResume(outcome, hasPid) ==
  /\ tunnel.starting > 0
  /\ Len(tunnel.tunnels) < MaxTunnels
  /\ outcome # "created" => hasPid
  /\ tunnel' = [tunnelStartAfterAwait(tunnel, outcome, hasPid)
                  EXCEPT !.last = TunnelEvent("resume", 0, tunnel)]
  /\ UNCHANGED NotTunnel

TunnelStop ==
  /\ tunnel.stopped < MaxTunnelStops
  /\ tunnel' = [tunnelStopBeforeAwait(tunnel, env.isWindows)
                  EXCEPT !.stopped = @ + 1, !.last = TunnelEvent("stop", tunnel.tunnel, tunnel)]
  /\ UNCHANGED NotTunnel

TunnelStopResume ==
  /\ tunnel.stopping > 0
  /\ tunnel' = [tunnelStopAfterAwait(tunnel) EXCEPT !.last = TunnelEvent("stopped", 0, tunnel)]
  /\ UNCHANGED NotTunnel

TunnelCleanup ==
  /\ tunnel.tunnel # 0
  /\ tunnel' = [killTunnel(tunnel, env.isWindows)
                  EXCEPT !.last = TunnelEvent("cleanup", tunnel.tunnel, tunnel)]
  /\ UNCHANGED NotTunnel

\* tunnel h reports its url or a connection
TunnelUrl(h) ==
  /\ h \in 1..Len(tunnel.tunnels)
  /\ tunnel.tunnels[h].alive
  /\ tunnel.last.op # "url"
  /\ tunnel' = [onTunnelUrl(tunnel, h) EXCEPT !.last = TunnelEvent("url", h, tunnel)]
  /\ UNCHANGED NotTunnel

\* tunnel h emits 'error'
TunnelError(h) ==
  /\ h \in 1..Len(tunnel.tunnels)
  /\ ~tunnel.tunnels[h].errored
  /\ ~tunnel.tunnels[h].exited
  /\ tunnel' = [onTunnelGone(tunnel, h) EXCEPT !.tunnels[h].errored = TRUE,
                                               !.last = TunnelEvent("error", h, tunnel)]
  /\ UNCHANGED NotTunnel

\* the process of tunnel h exits, on its own or killed, and h emits 'exit'
TunnelExit(h) ==
  /\ h \in 1..Len(tunnel.tunnels)
  /\ tunnel.tunnels[h].alive
  /\ tunnel' = [onTunnelGone(tunnel, h) EXCEPT !.tunnels[h].alive = FALSE,
                                               !.tunnels[h].exited = TRUE,
                                               !.last = TunnelEvent("exit", h, tunnel)]
  /\ UNCHANGED NotTunnel

NextTunnel ==
  \/ TunnelStart
  \/ \E outcome \in StartOutcomes, hasPid \in BOOLEAN : TunnelStartResume(outcome, hasPid)
  \/ TunnelStop
  \/ TunnelStopResume
  \/ TunnelCleanup
  \/ \E h \in 1..MaxTunnels : TunnelUrl(h)
  \/ \E h \in 1..MaxTunnels : TunnelError(h)
  \/ \E h \in 1..MaxTunnels : TunnelExit(h)

SpecTunnel == InitTunnel /\ [][NextTunnel]_vars

\* ------------------------------------------------------------------ C38

\* C38 (as claimed): an 'exit' or 'error' of a tunnel that stop or cleanup
\* has killed, arriving while a newer tunnel is tracked, leaves the reference
\* to the newer tunnel and the running status as they were.
C38_StaleEventsIgnored ==
  (/\ tunnel.last.op \in {"exit", "error"}
   /\ tunnel.tunnels[tunnel.last.arg].reqs # <<>>
   /\ tunnel.last.tunnel # 0
   /\ tunnel.last.tunnel # tunnel.last.arg) =>
     /\ tunnel.tunnel = tunnel.last.tunnel
     /\ tunnel.running = tunnel.last.running

\* ======================================================================
\* PluginsManager: its own execInPty next to the shared one
\* ======================================================================

\* bound: chunks of output the command writes
MaxPluginChunks == 2

\* the one call each implementation is given
OneCall == [c |-> (1 :> IdleCall), p |-> <<>>]

\* PluginsManager execInPty, lines 20-49 and 51-83: the executor; its
\* stripAnsi (lines 11-14) is the regular expression of the shared one
pluginExecInPty(w, c, spawnOk, pid) ==
  LET begun == [IdleCall EXCEPT !.started = TRUE, !.timer = "pending"]
  IN IF spawnOk
       THEN [c |-> [w.c EXCEPT ![c] = [begun EXCEPT !.ptyProcess = c]],
             p |-> w.p @@ (c :> [status |-> "running", pid |-> pid, killed |-> <<>>])]
       ELSE [c |-> [w.c EXCEPT ![c] =
                      [begun EXCEPT !.hasExited = TRUE,
                                    !.timer = clearTimeout(@),
                                    !.log = Append(@, Reject(<<"spawn failed">>))]],
             p |-> w.p]

\* lines 63-65
pluginOnData(w, c, data) ==
  [w EXCEPT !.c[c].output = @ \o data]

\* lines 67-77
pluginOnExit(w, c, exitCode) ==
  IF w.c[c].hasExited THEN w
  ELSE [w EXCEPT !.c[c].hasExited = TRUE,
                 !.c[c].timer = clearTimeout(@),
                 !.c[c].log = Append(@, IF exitCode = 0
                                          THEN Resolve(trim(stripAnsi(w.c[c].output)))
                                          ELSE Reject(<<"Command exited with code ", exitCode>>))]

\* lines 42-48: ptyProcess.kill() signals the process of the handle
pluginOnTimeout(w, c) ==
  LET call == w.c[c]
      h == call.ptyProcess
  IN IF ~call.hasExited /\ h # 0
       THEN [w EXCEPT !.c[c].hasExited = TRUE,
                      !.c[c].timer = "fired",
                      !.c[c].log = @ \o <<Kill(h), Reject(<<"Command timeout">>)>>,
                      !.p[h].killed = Append(@, Req("handle", "SIGHUP"))]
       ELSE [w EXCEPT !.c[c].timer = "fired"]

\* the group signal of killProcessTree fails and its fallback is carried out
GroupFails == [Carried EXCEPT !.group = FALSE]

InitPlugin ==
  /\ env \in Envs
  /\ TerminalIdle
  /\ install = <<>>
  /\ hapi = <<>>
  /\ tunnel = <<>>
  /\ plugin = [shared |-> OneCall, private |-> OneCall, events |-> <<>>, chunks |-> 0]
  /\ watch = <<>>

NotPlugin == <<env, Terminal, install, hapi, tunnel, watch>>

\* both are called with the same command; pty.spawn returns or throws
PluginStart(spawnOk, pid) ==
  /\ ~plugin.shared.c[1].started
  /\ pid = 0 => env.isWindows /\ spawnOk
  /\ plugin' = [plugin EXCEPT
                  !.shared = execInPty(@, 1, FALSE, spawnOk, pid),
                  !.private = pluginExecInPty(@, 1, spawnOk, pid),
                  !.events = Append(@, "start")]
  /\ UNCHANGED NotPlugin

\* the command writes a chunk
PluginData(data) ==
  /\ 1 \in DOMAIN plugin.shared.p
  /\ plugin.shared.p[1].status = "running"
  /\ plugin.chunks < MaxPluginChunks
  /\ plugin' = [plugin EXCEPT
                  !.shared = onData(@, 1, data),
                  !.private = pluginOnData(@, 1, data),
                  !.chunks = @ + 1,
                  !.events = Append(@, "data")]
  /\ UNCHANGED NotPlugin

\* the command exits
PluginExit(exitCode) ==
  /\ 1 \in DOMAIN plugin.shared.p
  /\ plugin.shared.p[1].status = "running"
  /\ plugin' = [plugin EXCEPT
                  !.shared = [onExit(@, 1, exitCode) EXCEPT !.p[1].status = "exited"],
                  !.private = [pluginOnExit(@, 1, exitCode) EXCEPT !.p[1].status = "exited"],
                  !.events = Append(@, "exit")]
  /\ UNCHANGED NotPlugin

\* the timers fire
PluginTimeout(oc) ==
  /\ plugin.shared.c[1].timer = "pending"
  /\ plugin' = [plugin EXCEPT
                  !.shared = onTimeout(@, 1, env.isWindows, oc),
                  !.private = pluginOnTimeout(@, 1),
                  !.events = Append(@, "timeout")]
  /\ UNCHANGED NotPlugin

NextPlugin ==
  \/ \E spawnOk \in BOOLEAN, pid \in {0, 100} : PluginStart(spawnOk, pid)
  \/ \E data \in Chunks : PluginData(data)
  \/ \E exitCode \in ExitCodes : PluginExit(exitCode)
  \/ \E oc \in {Carried, GroupFails} : PluginTimeout(oc)

SpecPlugin == InitPlugin /\ [][NextPlugin]_vars

\* ------------------------------------------------------------------ C39

SettlementsOf(w) == SelectSeq(w.c[1].log, LAMBDA x : x.type \in {"resolve", "reject"})

KillsOf(w) == SelectSeq(w.c[1].log, LAMBDA x : x.type = "kill")

\* the two calls have settled the same number of times, at most once, with
\* the same kind of outcome, and with the same value when they resolved
SameOutcome ==
  /\ Len(SettlementsOf(plugin.shared)) <= 1
  /\ Len(SettlementsOf(plugin.private)) = Len(SettlementsOf(plugin.shared))
  /\ KillsOf(plugin.private) = KillsOf(plugin.shared)
  /\ \A i \in 1..Len(SettlementsOf(plugin.shared)) :
       LET s == SettlementsOf(plugin.shared)[i]
           q == SettlementsOf(plugin.private)[i]
       IN /\ q.type = s.type
          /\ s.type = "resolve" => q.value = s.value

\* a termination request that reaches the process tree of a process with a
\* pid: the process group, or taskkill /t
ReachesTree(w) ==
  (1 \in DOMAIN w.p /\ w.p[1].pid # 0 /\ KillsOf(w) # <<>>) =>
    /\ w.p[1].killed # <<>>
    /\ w.p[1].killed[1].via \in {"group", "taskkill"}

\* C39 (as claimed): for every sequence of data, exit and timeout events the
\* private execInPty of the plugin manager and the shared execInPty without
\* killOnTimeout settle once with the same outcome, and on timeout both
\* terminate the process tree of the command.
C39_PluginExecEquivalent ==
  /\ SameOutcome
  /\ ReachesTree(plugin.shared)
  /\ ReachesTree(plugin.private)

\* what holds of the two: they agree in everything but the reach of the
\* termination on timeout
C39_SameOutcomeSharedReachesTree ==
  /\ SameOutcome
  /\ ReachesTree(plugin.shared)

\* ---------------------------------------------------------------------------
\* The file-watcher table (src/main/ipc/files.ts)
\* ---------------------------------------------------------------------------

\* watchers created, and stop requests of the three kinds taken together
MaxWatchers == 3
MaxWatchStops == 2

\* the directories of the requests: a directory and, under another spelling,
\* one of its sub-directories
WatchDirs == {<<"/", "a">>, <<"/", "A", "/", "b">>}

\* const watchers = new Map<string, FileWatcher>(): the entries in insertion
\* order, each a path and the index of its watcher
watchersHas(table, path) == \E p \in 1..Len(table) : table[p].path = path

PositionOf(table, path) == CHOOSE p \in 1..Len(table) : table[p].path = path

watchersGet(table, path) ==
  IF watchersHas(table, path) THEN table[PositionOf(table, path)].w ELSE 0

\* Map.set: a known key keeps its place, a new one goes to the end
watchersSet(table, path, w) ==
  IF watchersHas(table, path)
  THEN [table EXCEPT ![PositionOf(table, path)].w = w]
  ELSE Append(table, [path |-> path, w |-> w])

\* Map.delete: the iterations in progress that have passed the entry move
\* back by one
watchersDelete(m, path) ==
  IF ~watchersHas(m.table, path) THEN m
  ELSE LET p == PositionOf(m.table, path)
       IN [m EXCEPT
             !.table = SubSeq(@, 1, p - 1) \o SubSeq(@, p + 1, Len(@)),
             !.iters = [i \in 1..Len(@) |->
                          IF @[i].cursor >= p
                          THEN [@[i] EXCEPT !.cursor = @ - 1] ELSE @[i]]]

\* FileWatcher.start() once its promise resolves
watcherStarted(ws, w) == [ws EXCEPT ![w].state = "running"]

\* FileWatcher.stop() when called, and once its promise resolves
watcherStop(ws, w) ==
  [ws EXCEPT ![w].state = IF @ = "running" THEN "stopping" ELSE @]

watcherStopped(ws, w) == [ws EXCEPT ![w].state = "stopped"]

\* the test of stopWatchersInDirectory on a path of the table
InDirectory(path, dirPath) ==
  WorkdirMatches(NormalizeDir(path), NormalizeDir(dirPath))

\* FILE_WATCH_START up to its await: nothing without a window or when the
\* directory has an entry, else a new watcher whose start() is awaited
watchStartBeforeAwait(m, hasWindow, dirPath) ==
  IF ~hasWindow \/ watchersHas(m.table, dirPath) THEN m
  ELSE [m EXCEPT !.watchers = Append(@, [dir |-> dirPath, state |-> "starting"])]

\* ... and after it: watchers.set(dirPath, watcher)
watchStartAfterAwait(m, w) ==
  [m EXCEPT !.watchers = watcherStarted(@, w),
            !.table = watchersSet(@, m.watchers[w].dir, w)]

\* FILE_WATCH_STOP up to its await
watchStopBeforeAwait(m, dirPath) ==
  LET w == watchersGet(m.table, dirPath)
  IN IF w = 0 THEN m
     ELSE [m EXCEPT !.watchers = watcherStop(@, w),
                    !.stops = Append(@, [path |-> dirPath, w |-> w, done |-> FALSE])]

\* ... and after it: watchers.delete(dirPath)
watchStopAfterAwait(m, i) ==
  LET s == m.stops[i]
  IN watchersDelete([m EXCEPT !.watchers = watcherStopped(@, s.w),
                              !.stops[i].done = TRUE], s.path)

\* the loop of stopWatchersInDirectory from its position to the next await
\* or to its end
dirStopAdvance(m, i) ==
  LET it == m.iters[i]
      ahead == {p \in (it.cursor + 1)..Len(m.table) :
                  InDirectory(m.table[p].path, it.dir)}
  IN IF ahead = {}
     THEN [m EXCEPT !.iters[i] = [@ EXCEPT !.cursor = Len(m.table), !.w = 0, !.done = TRUE]]
     ELSE LET p == CHOOSE q \in ahead : \A r \in ahead : q <= r
          IN [m EXCEPT
                !.watchers = watcherStop(@, m.table[p].w),
                !.iters[i] = [@ EXCEPT !.cursor = p, !.path = m.table[p].path,
                                       !.w = m.table[p].w]]

stopWatchersInDirectory(m, dirPath) ==
  dirStopAdvance([m EXCEPT !.iters = Append(@, [dir |-> dirPath, cursor |-> 0,
                                                path |-> <<>>, w |-> 0,
                                                done |-> FALSE])],
                 Len(m.iters) + 1)

\* after an await of the loop: watchers.delete(path), then the loop goes on
dirStopAfterAwait(m, i) ==
  LET it == m.iters[i]
  IN dirStopAdvance(watchersDelete([m EXCEPT !.watchers = watcherStopped(@, it.w)],
                                   it.path), i)

\* stopAllFileWatchers up to its await: stop() on every value of the table
stopAllBeforeAwait(m) ==
  LET ws == {m.table[p].w : p \in 1..Len(m.table)}
  IN [m EXCEPT
        !.watchers = [w \in 1..Len(@) |->
                        IF w \in ws THEN watcherStop(@, w)[w] ELSE @[w]],
        !.alls = Append(@, [ws |-> ws, done |-> FALSE])]

\* ... and after it: watchers.clear()
stopAllAfterAwait(m, i) ==
  [m EXCEPT
     !.watchers = [w \in 1..Len(@) |->
                     IF w \in m.alls[i].ws THEN watcherStopped(@, w)[w] ELSE @[w]],
     !.alls[i].done = TRUE,
     !.table = <<>>,
     !.iters = [j \in 1..Len(@) |-> [@[j] EXCEPT !.cursor = 0]]]

StopCalls(m) == Len(m.stops) + Len(m.iters) + Len(m.alls)

InitWatch ==
  /\ env \in Envs
  /\ TerminalIdle
  /\ install = <<>>
  /\ hapi = <<>>
  /\ tunnel = <<>>
  /\ plugin = <<>>
  /\ watch = [table |-> <<>>, watchers |-> <<>>, stops |-> <<>>, iters |-> <<>>,
              alls |-> <<>>, last |-> "init"]

NotWatch == <<env, Terminal, install, hapi, tunnel, plugin>>

WatchStart(hasWindow, dirPath) ==
  /\ Len(watch.watchers) < MaxWatchers
  /\ watch' = [watchStartBeforeAwait(watch, hasWindow, dirPath) EXCEPT !.last = "start"]
  /\ UNCHANGED NotWatch

WatchStarted(w) ==
  /\ watch.watchers[w].state = "starting"
  /\ watch' = [watchStartAfterAwait(watch, w) EXCEPT !.last = "started"]
  /\ UNCHANGED NotWatch

WatchStop(dirPath) ==
  /\ StopCalls(watch) < MaxWatchStops
  /\ watch' = [watchStopBeforeAwait(watch, dirPath) EXCEPT !.last = "stop"]
  /\ UNCHANGED NotWatch

WatchStopped(i) ==
  /\ ~watch.stops[i].done
  /\ watch' = [watchStopAfterAwait(watch, i) EXCEPT !.last = "stopped"]
  /\ UNCHANGED NotWatch

WatchDirStop(dirPath) ==
  /\ StopCalls(watch) < MaxWatchStops
  /\ watch' = [stopWatchersInDirectory(watch, dirPath) EXCEPT !.last = "dirStop"]
  /\ UNCHANGED NotWatch

WatchDirStopped(i) ==
  /\ ~watch.iters[i].done
  /\ watch' = [dirStopAfterAwait(watch, i) EXCEPT !.last = "dirStopped"]
  /\ UNCHANGED NotWatch

WatchStopAll ==
  /\ StopCalls(watch) < MaxWatchStops
  /\ watch' = [stopAllBeforeAwait(watch) EXCEPT !.last = "stopAll"]
  /\ UNCHANGED NotWatch

WatchStoppedAll(i) ==
  /\ ~watch.alls[i].done
  /\ watch' = [stopAllAfterAwait(watch, i) EXCEPT !.last = "stoppedAll"]
  /\ UNCHANGED NotWatch

NextWatch ==
  \/ \E hasWindow \in BOOLEAN, dirPath \in WatchDirs : WatchStart(hasWindow, dirPath)
  \/ \E w \in 1..Len(watch.watchers) : WatchStarted(w)
  \/ \E dirPath \in WatchDirs : WatchStop(dirPath)
  \/ \E i \in 1..Len(watch.stops) : WatchStopped(i)
  \/ \E dirPath \in WatchDirs : WatchDirStop(dirPath)
  \/ \E i \in 1..Len(watch.iters) : WatchDirStopped(i)
  \/ WatchStopAll
  \/ \E i \in 1..Len(watch.alls) : WatchStoppedAll(i)

SpecWatch == InitWatch /\ [][NextWatch]_vars

\* ------------------------------------------------------------------ C40

InTable(w) == \E p \in 1..Len(watch.table) : watch.table[p].w = w

\* C40: for any interleaving of FILE_WATCH_START, FILE_WATCH_STOP,
\* stopWatchersInDirectory and stopAllFileWatchers, a watcher that runs is in
\* the table (one whose stop() has been called counts as stopped), and no two
\* running watchers watch the same directory.
C40_OneWatcherPerDirectoryNoLeak ==
  \A w \in 1..Len(watch.watchers) :
    watch.watchers[w].state = "running" =>
      /\ InTable(w)
      /\ \A v \in 1..Len(watch.watchers) :
           (v # w /\ watch.watchers[v].state = "running")
             => watch.watchers[v].dir # watch.watchers[w].dir

====
